---- MODULE Spec2Model ----
(***************************************************************************)
(* Model of the continuous screen-monitoring subsystem of the vision       *)
(* service: WatchManager (src/src/services/watch_manager.py) together with *)
(* the fingerprint and diff functions of ScreenshotService                 *)
(* (src/src/services/screenshot.py).                                       *)
(*                                                                         *)
(* The manager's fields are the variables thread, stop_event, config,      *)
(* last_fingerprint, is_running and callback.  start(), stop() and         *)
(* get_status() run under the manager's RLock; stop() keeps the lock while *)
(* it joins the loop thread, which is the variable lock.  _watch_loop takes *)
(* no lock: a loop thread takes one step per statement block that ends in  *)
(* a call of a collaborator (capture, text recognition, description, sink, *)
(* the timed wait) or in the write of the baseline, and between two steps  *)
(* the other threads run freely.                                           *)
(*                                                                         *)
(* Numbers: change_threshold is kept in hundredths (8 is 0.08), a diff     *)
(* score is the exact fraction num/den, and the delta of a payload is in   *)
(* units of 1e-5 (round(delta, 5)).                                        *)
(***************************************************************************)
EXTENDS Integers, Sequences, FiniteSets, TLC

\* ------------------------------------------------------------------ bounds
\* Number of loop threads that can be alive at the same time.
MaxLoops == 2

\* Number of start() calls in one behaviour.
MaxStarts == 2

\* Number of times the frame source changes in one behaviour.
MaxScreenChanges == 1

\* Number of calls (capture, text recognition, description, sink) that raise in
\* one behaviour.
MaxFaults == 2

Slots == 1..MaxLoops

\* Python's None for a string-valued field (the callback, the task).
None == "None"

\* An Optional value of another type: the empty tuple is None, <<x>> is x.
Nothing == <<>>
Some(x) == <<x>>
IsNone(o) == o = <<>>
Val(o) == o[1]

\* self._thread = None
NoThread == 0

\* ------------------------------------------------------------------ frames
\* A frame is the captured image already at the fingerprint's resolution: a
\* sequence of RGB pixels.
FrameA == << <<0, 0, 0>>, <<0, 0, 0>> >>
FrameC == << <<20, 20, 20>>, <<0, 0, 0>> >>

Frames == {FrameA, FrameC}

\* ImageOps.grayscale of one pixel (ITU-R 601-2 luma transform).
Luma(p) == (p[1] * 299 + p[2] * 587 + p[3] * 114) \div 1000

\* ScreenshotService.generate_fingerprint: the grayscale bytes of the frame.
generate_fingerprint(img) == [k \in 1..Len(img) |-> Luma(img[k])]

Abs(x) == IF x < 0 THEN -x ELSE x

RECURSIVE SumAbsDiff(_, _, _)
SumAbsDiff(a, b, k) ==
    IF k = 0 THEN 0 ELSE Abs(a[k] - b[k]) + SumAbsDiff(a, b, k - 1)

\* A calculate_diff that takes a missing fingerprint for an unchanged one.
calculate_diff_NoneIsSame(fp_a, fp_b) ==
    IF IsNone(fp_a) \/ IsNone(fp_b) THEN [num |-> 0, den |-> 1]
    ELSE IF Len(Val(fp_a)) # Len(Val(fp_b)) THEN [num |-> 1, den |-> 1]
    ELSE [num |-> SumAbsDiff(Val(fp_a), Val(fp_b), Len(Val(fp_a))),
          den |-> Len(Val(fp_a)) * 255]

\* A calculate_diff that divides by the length only.
calculate_diff_Unnormalised(fp_a, fp_b) ==
    IF IsNone(fp_a) \/ IsNone(fp_b) THEN [num |-> 1, den |-> 1]
    ELSE IF Len(Val(fp_a)) # Len(Val(fp_b)) THEN [num |-> 1, den |-> 1]
    ELSE [num |-> SumAbsDiff(Val(fp_a), Val(fp_b), Len(Val(fp_a))),
          den |-> Len(Val(fp_a))]

\* ScreenshotService.calculate_diff, as the exact fraction num/den.
calculate_diff(fp_a, fp_b) ==
    IF IsNone(fp_a) \/ IsNone(fp_b) THEN [num |-> 1, den |-> 1]
    ELSE IF Len(Val(fp_a)) # Len(Val(fp_b)) THEN [num |-> 1, den |-> 1]
    ELSE [num |-> SumAbsDiff(Val(fp_a), Val(fp_b), Len(Val(fp_a))),
          den |-> Len(Val(fp_a)) * 255]

\* delta >= change_threshold, the threshold in hundredths.
DeltaGE(delta, threshold) == delta.num * 100 >= threshold * delta.den

\* round(delta, 5), in units of 1e-5.
Round5(delta) == (2 * 100000 * delta.num + delta.den) \div (2 * delta.den)

\* ------------------------------------------------------------------ configurations
\* WatchConfig values the callers pass to start().
CfgDefault ==
    [interval_ms |-> 2000, change_threshold |-> 8, run_ocr |-> FALSE,
     run_vlm |-> FALSE, task |-> None, region |-> Nothing]

CfgFull ==
    [interval_ms |-> 50, change_threshold |-> 2, run_ocr |-> TRUE,
     run_vlm |-> TRUE, task |-> "describe", region |-> Some(<<0, 0, 10, 10>>)]

Configs == {CfgDefault, CfgFull}

\* The callback argument of start(): no sink, or a sink.
Callbacks == {None, "sink"}

VARIABLES
    thread,            \* self._thread: NoThread or the slot of the loop thread
    stop_event,        \* self._stop_event
    config,            \* self._config
    last_fingerprint,  \* self._last_fingerprint
    is_running,        \* self._is_running
    callback,          \* self._callback
    lock,              \* "free", or "stop" while a stop() call joins the thread
    loops,             \* the loop threads: position and locals of _watch_loop
    vlm_enabled,       \* VLMEngine._enabled (VLM_ENABLED of the environment)
    screen,            \* what the capture provider returns now
    starts,            \* number of start() calls so far
    faults,            \* number of calls that raised so far
    screenChanges,     \* number of changes of the frame source so far
    cache,             \* VisionCache._cache: the entries, in dict order
    max_size,          \* VisionCache.max_size
    now,               \* time.time(), in seconds
    calls,             \* the callers of the cache: position and locals
    ncalls,            \* number of cache calls begun so far
    router_cache,      \* VisionEngine._cache: cache key -> result
    google_client,     \* VisionEngine.google_client: absent, or the key it has
    qwen_model,        \* VisionEngine.qwen_model is loaded
    environ,           \* os.environ: QWEN_ENABLED, GOOGLE_VISION_API_KEY
    resp,              \* the last process() call: request, outcome, what ran
    nprocess,          \* number of process() calls so far
    http,              \* the last HTTP request and its response
    nrequests,         \* number of HTTP requests so far
    instance,          \* cls._instance of VLMEngine and of OCREngine
    heap,              \* the engine objects constructed so far
    loads,             \* number of model loads so far, by class
    users,             \* the threads that use an engine: position and locals
    arg_a,             \* calculate_diff: the argument fp_a
    arg_b,             \* calculate_diff: the argument fp_b
    score,             \* calculate_diff: what the call returned
    hist               \* the calls of the cache made whole, oldest first

\* The variables of the monitor, and the variables of the other components.
watch == <<thread, stop_event, config, last_fingerprint, is_running, callback,
           lock, loops, vlm_enabled, screen, starts, faults, screenChanges>>

cachev == <<cache, max_size, now, calls, ncalls>>

enginev == <<router_cache, google_client, qwen_model, environ, resp, nprocess>>

routev == <<http, nrequests>>

lazyv == <<instance, heap, loads, users>>

diffv == <<arg_a, arg_b, score>>

callv == <<hist>>

restv == <<routev, lazyv, diffv, callv>>

others == <<cachev, enginev, restv>>

vars == <<watch, others>>

env == <<vlm_enabled, screen, starts, screenChanges>>

mgr == <<thread, stop_event, config, last_fingerprint, is_running, callback>>

NoDelta == [num |-> 0, den |-> 1]

\* A thread that does not run: never started, or returned from _watch_loop.
\* The fields after exc are history of the current tick (what it found and did,
\* and began: the number of start() calls made before it began) and of the
\* run (stopped, tickAfterStop, and ticked: a tick of the thread has written
\* the baseline and stop() has not been called on it since), kept for the
\* properties.
Dead ==
    [pc |-> "done", ocr_engine |-> FALSE, vlm_engine |-> FALSE, img |-> Nothing,
     delta |-> NoDelta, payload |-> Nothing, exc |-> None,
     hadBase |-> FALSE, vlmInvoked |-> FALSE, thrVlm |-> Nothing,
     thrChg |-> Nothing, sent |-> {}, logged |-> {}, stopped |-> FALSE,
     tickAfterStop |-> FALSE, began |-> 0, ticked |-> FALSE]

\* The locals of a thread between two ticks, at pc: the locals and the history
\* of the last tick are dropped, the engines and the history of the run are kept.
Between(l, pc) ==
    [Dead EXCEPT !.pc = pc, !.ocr_engine = l.ocr_engine,
                 !.vlm_engine = l.vlm_engine, !.stopped = l.stopped,
                 !.tickAfterStop = l.tickAfterStop, !.ticked = l.ticked]

Alive(i) == loops[i].pc # "done"

\* A status that reports the running flag with the configuration the manager
\* was constructed with.
get_status_Defaults ==
    [running |-> is_running, interval_ms |-> CfgDefault.interval_ms,
     change_threshold |-> CfgDefault.change_threshold,
     run_ocr |-> CfgDefault.run_ocr, run_vlm |-> CfgDefault.run_vlm,
     task |-> CfgDefault.task, region |-> CfgDefault.region]

\* WatchManager.get_status
get_status ==
    [running |-> is_running, interval_ms |-> config.interval_ms,
     change_threshold |-> config.change_threshold, run_ocr |-> config.run_ocr,
     run_vlm |-> config.run_vlm, task |-> config.task, region |-> config.region]

\* ------------------------------------------------------------ VisionCache
\* Number of callers of the cache, keys and results they use, largest
\* max_size, last second of the clock, and calls per behaviour.
MaxCallers == 2

MaxKeys == 3

MaxCap == 2

MaxTime == 2

MaxCalls == 4

\* VisionCache.ttl, in seconds.
Ttl == 1

Callers == 1..MaxCallers

Keys == 1..MaxKeys

CacheResults == {"r1", "r2"}

\* A caller that is in no call of the cache and has made none.
Idle ==
    [pc |-> "idle", op |-> None, key |-> 0, result |-> None, entry |-> Nothing,
     victims |-> <<>>, ret |-> Nothing, exc |-> None]

\* key in self._cache
Has(c, key) == \E n \in 1..Len(c) : c[n].key = key

\* self._cache[key]
Lookup(c, key) == c[CHOOSE n \in 1..Len(c) : c[n].key = key]

\* del self._cache[key]
Del(c, key) == SelectSeq(c, LAMBDA e : e.key # key)

\* An insertion that leaves the entry of a key that is present as it is.
Put_KeepExisting(c, key, result, t) ==
    IF Has(c, key) THEN c
    ELSE Append(c, [key |-> key, result |-> result, timestamp |-> t])

\* self._cache[key] = {'result': result, 'timestamp': t}: a new key goes to
\* the end of the dict, a key that is present keeps its place.
Put(c, key, result, t) ==
    LET e == [key |-> key, result |-> result, timestamp |-> t] IN
    IF Has(c, key)
    THEN [n \in 1..Len(c) |-> IF c[n].key = key THEN e ELSE c[n]]
    ELSE Append(c, e)

\* An entry that expires when its age reaches the TTL.
Expired_AtTtl(entry, t) == t - entry.timestamp >= Ttl

\* time.time() - entry['timestamp'] > self.ttl
Expired(entry, t) == t - entry.timestamp > Ttl

\* sorted(self._cache.items(), key=lambda x: x[1]['timestamp']): a stable
\* sort, by insertion of each entry behind the entries that are not younger.
RECURSIVE SortedEntries(_)
SortedEntries(c) ==
    IF c = <<>> THEN <<>>
    ELSE LET n == Len(c)
             init == SortedEntries(SubSeq(c, 1, n - 1))
             k == Cardinality({m \in 1..Len(init) :
                                  init[m].timestamp <= c[n].timestamp})
         IN  SubSeq(init, 1, k) \o <<c[n]>> \o SubSeq(init, k + 1, Len(init))

\* A fifth of the entries, and none of fewer than five.
NumToRemove_Floor(n) == n \div 5

\* num_to_remove = max(1, len(sorted_entries) // 5)
NumToRemove(n) == IF n \div 5 > 1 THEN n \div 5 ELSE 1

\* The keys of the first entries in dict order, whatever their age.
Victims_DictOrder(c) ==
    LET num_to_remove == NumToRemove(Len(c))
    IN  [n \in 1..num_to_remove |-> c[n].key]

\* The keys _cleanup_oldest deletes: those of sorted_entries[:num_to_remove].
Victims(c) ==
    LET sorted_entries == SortedEntries(c)
        num_to_remove == NumToRemove(Len(sorted_entries))
    IN  [n \in 1..num_to_remove |-> sorted_entries[n].key]

\* VisionCache.get_stats
get_stats ==
    [total_entries |-> Len(cache),
     active_entries |-> Cardinality({n \in 1..Len(cache) :
                                        now - cache[n].timestamp <= Ttl}),
     max_size |-> max_size, ttl_seconds |-> Ttl]

\* VisionCache.__init__, before any call.
CacheInit ==
    /\ cache = <<>>
    /\ now = 0
    /\ calls = [c \in Callers |-> Idle]
    /\ ncalls = 0

\* ----------------------------------------------------------- VisionEngine
\* Number of process() calls of a behaviour.
MaxProcess == 2

Modes == {"online", "privacy", "fax"}

Tasks == {"describe", "extract_text"}

\* options: the api_key and the prompt of the request, each present or not.
ApiKeys == {Nothing, Some("key1"), Some("key2")}

Prompts == {Nothing, Some("what is on the screen?")}

Options == [api_key : ApiKeys, prompt : Prompts]

\* What the environment does to one process() call: whether the import and
\* construction of each backend succeed, and whether each backend call does.
Outcomes ==
    [google_loads : BOOLEAN, google_works : BOOLEAN,
     qwen_loads : BOOLEAN, qwen_works : BOOLEAN]

\* hashlib.md5(img_bytes).hexdigest(): a digest, which tells the byte strings
\* of the model apart.
Md5(img_bytes) == <<"md5", img_bytes>>

\* VisionEngine._generate_fingerprint
engine_fingerprint(img) == Md5(generate_fingerprint(img))

\* cache_key = f"{mode}:{task}:{fingerprint}"
CacheKey(mode, task, fingerprint) == <<mode, task, fingerprint>>

\* The dict a backend returns for a frame: _call_google_vision does not look
\* at the options; _call_qwen_vision uses options['prompt'] for a describe.
BackendResult(backend, img, task, options) ==
    [backend |-> backend, img |-> img, task |-> task,
     prompt |-> IF backend = "qwen" /\ task = "describe"
                THEN options.prompt ELSE Nothing]

\* The state of a process() call under way: the two handles, the loaders and
\* backends that have run, what logger.error and logger.warning have written,
\* and the result or the error once there is one.
Run(client, model) ==
    [google_client |-> client, qwen_model |-> model, did |-> <<>>,
     logged |-> <<>>, status |-> "running", value |-> Nothing]

Logs(r, line) == [r EXCEPT !.logged = Append(@, line)]

Did(r, what) == [r EXCEPT !.did = Append(@, what)]

Ok(r, result) == [r EXCEPT !.status = "ok", !.value = Some(result)]

Failed(r, error) == [r EXCEPT !.status = "error", !.value = Some(error)]

\* The message of an exception is the sequence of its parts; the message of
\* an exception that a library raises is one part.
Names(message, part) == \E k \in 1..Len(message) : message[k] = part

\* The two remedies that a message can name.
CredentialHint == "connect Google Vision API via OAuth"

FallbackHint == "enable QWEN_ENABLED=true in .env"

\* ValueError of _load_google_client
NoKeyMessage ==
    <<"GOOGLE_VISION_API_KEY not provided. ", "Pass api_key in request",
      " or ", "set GOOGLE_VISION_API_KEY in .env">>

\* ValueError of _load_qwen_model
NotEnabledMessage == <<"Qwen model not enabled. ", "Set QWEN_ENABLED=true in .env">>

\* ValueError of process()
InvalidModeMessage == <<"Invalid mode. ", "Must be 'online' or 'privacy'">>

\* A message of the except clause of _process_online that names no remedy.
NoFallbackMessage_Generic ==
    <<"Google Vision API failed and privacy mode (Qwen) is disabled. ">>

\* ValueError of the except clause of _process_online
NoFallbackMessage ==
    <<"Google Vision API failed and privacy mode (Qwen) is disabled. ",
      "Please ", CredentialHint, " or ", FallbackHint>>

\* VisionEngine._load_google_client, for a call that has no client yet.
load_google_client(r, api_key, out) ==
    LET key == IF IsNone(api_key) THEN environ.GOOGLE_VISION_API_KEY ELSE api_key
        l == Did(r, "load_google")
        e == Logs(l, "Failed to load Google Vision client")
    IN  IF ~out.google_loads THEN Failed(e, <<"google import failed">>)
        ELSE IF IsNone(key) THEN Failed(e, NoKeyMessage)
        ELSE [l EXCEPT !.google_client = key]

\* VisionEngine._load_qwen_model, for a call that has no model yet.
load_qwen_model(r, out) ==
    LET l == Did(r, "load_qwen")
        e == Logs(l, "Failed to load Qwen model")
    IN  IF ~environ.QWEN_ENABLED THEN Failed(e, NotEnabledMessage)
        ELSE IF ~out.qwen_loads THEN Failed(e, <<"qwen load failed">>)
        ELSE [l EXCEPT !.qwen_model = TRUE]

\* A _process_privacy that turns to the online backend when its own fails.
process_privacy_ThenOnline(r, img, task, options, out) ==
    LET l == IF r.qwen_model THEN r ELSE load_qwen_model(r, out) IN
    IF l.status = "running" /\ out.qwen_works
    THEN Ok(Did(l, "call_qwen"), BackendResult("qwen", img, task, options))
    ELSE Ok(Did(Logs([l EXCEPT !.status = "running", !.value = Nothing],
                     "Local vision processing error"), "call_google"),
            BackendResult("google", img, task, options))

\* VisionEngine._process_privacy: the exception of the loader or of the
\* backend is raised again.
process_privacy(r, img, task, options, out) ==
    LET l == IF r.qwen_model THEN r ELSE load_qwen_model(r, out) IN
    IF l.status = "error" THEN Logs(l, "Local vision processing error")
    ELSE IF out.qwen_works
         THEN Ok(Did(l, "call_qwen"), BackendResult("qwen", img, task, options))
         ELSE Failed(Logs(Did(l, "call_qwen"), "Local vision processing error"),
                     <<"qwen call failed">>)

\* The except clause of _process_online: the fallback to the privacy backend
\* that gives up at once.
OnlineFailed_NoFallback(r, img, task, options, out) ==
    Failed(Logs(r, "Google Vision API error"), NoFallbackMessage)

\* The except clause of _process_online.
OnlineFailed(r, img, task, options, out) ==
    LET e == Logs(r, "Google Vision API error") IN
    IF environ.QWEN_ENABLED
    THEN process_privacy([Logs(e, "Falling back to privacy mode")
                             EXCEPT !.status = "running", !.value = Nothing],
                         img, task, options, out)
    ELSE Failed(e, NoFallbackMessage)

\* A _process_online that loads the client for every request, with the
\* credential of the request.
process_online_ReloadsPerRequest(r, img, task, options, out) ==
    LET l == load_google_client(r, options.api_key, out)
    IN  IF l.status = "error" THEN OnlineFailed(l, img, task, options, out)
        ELSE IF out.google_works
             THEN Ok(Did(l, "call_google"),
                     BackendResult("google", img, task, options))
             ELSE OnlineFailed(Failed(Did(l, "call_google"), <<"google call failed">>),
                               img, task, options, out)

\* VisionEngine._process_online
process_online(r, img, task, options, out) ==
    LET l == IF IsNone(r.google_client)
             THEN load_google_client(r, options.api_key, out) ELSE r
    IN  IF l.status = "error" THEN OnlineFailed(l, img, task, options, out)
        ELSE IF out.google_works
             THEN Ok(Did(l, "call_google"),
                     BackendResult("google", img, task, options))
             ELSE OnlineFailed(Failed(Did(l, "call_google"), <<"google call failed">>),
                               img, task, options, out)

\* A cache hit that returns the stored dict as it is.
CachedCopy_AsStored(result) == result

\* The result process() returns for a cache hit.
CachedCopy(result) == [result EXCEPT !.cached = TRUE, !.latency_ms = 0]

\* An annotation that names the mode of the backend that served the call.
Annotated_ByBackend(result, mode) ==
    [backend |-> result.backend, img |-> result.img, task |-> result.task,
     prompt |-> result.prompt,
     mode |-> IF result.backend = "qwen" THEN "privacy" ELSE "online",
     latency_ms |-> 1, cached |-> FALSE]

\* result['mode'] = mode; result['latency_ms'] = elapsed; result['cached'] = False
\* The elapsed time of a call that ran a backend is more than 0: it is 1 here.
Annotated(result, mode) ==
    [backend |-> result.backend, img |-> result.img, task |-> result.task,
     prompt |-> result.prompt, mode |-> mode, latency_ms |-> 1, cached |-> FALSE]

\* VisionEngine.__init__, in an environment.
EngineInit ==
    /\ router_cache = <<>>
    /\ google_client = Nothing
    /\ qwen_model = FALSE
    /\ resp = Nothing
    /\ nprocess = 0

\* The service before its first HTTP request.
RouteInit ==
    /\ http = Nothing
    /\ nrequests = 0

\* The two engine classes, no instance constructed, and no thread using one.
Classes == {"VLMEngine", "OCREngine"}

\* Number of threads that use the engines at the same time.
MaxUsers == 2

Users == 1..MaxUsers

NoUse == [pc |-> "idle", cls |-> None, self |-> 0, model |-> Nothing]

LazyInit ==
    /\ instance = [cls \in Classes |-> 0]
    /\ heap = <<>>
    /\ loads = [cls \in Classes |-> 0]
    /\ users = [u \in Users |-> NoUse]

\* No call of calculate_diff.
DiffInit ==
    /\ arg_a = Nothing
    /\ arg_b = Nothing
    /\ score = Nothing

\* No call of the cache has been made.
CallInit == hist = <<>>

RestInit == RouteInit /\ LazyInit /\ DiffInit /\ CallInit

\* WatchManager.__init__, in an environment.
WatchInit ==
    /\ thread = NoThread
    /\ stop_event = FALSE
    /\ config = CfgDefault
    /\ last_fingerprint = Nothing
    /\ is_running = FALSE
    /\ callback = None
    /\ lock = "free"
    /\ loops = [i \in Slots |-> Dead]
    /\ vlm_enabled \in BOOLEAN
    /\ screen = FrameA
    /\ starts = 0
    /\ faults = 0
    /\ screenChanges = 0

\* The monitor after construction, beside a cache that is not used.
Init ==
    /\ WatchInit
    /\ CacheInit
    /\ max_size = 1
    /\ EngineInit
    /\ RestInit
    /\ environ = [QWEN_ENABLED |-> FALSE, GOOGLE_VISION_API_KEY |-> Nothing]


\* ------------------------------------------------------------------ the manager
\* A start() while running that restarts change detection.
reconfigure_reset(cfg, cb) ==
    /\ config' = cfg
    /\ callback' = cb
    /\ last_fingerprint' = Nothing
    /\ UNCHANGED <<thread, stop_event, is_running, loops>>

\* WatchManager.start while the monitor runs ("Updated watch configuration").
reconfigure(cfg, cb) ==
    /\ config' = cfg
    /\ callback' = cb
    /\ UNCHANGED <<thread, stop_event, last_fingerprint, is_running, loops>>

\* WatchManager.start, called from a request context.  A start() while the
\* monitor runs replaces the configuration and the sink; otherwise it starts a
\* new loop thread, in the first slot no live thread occupies.
start(cfg, cb) ==
    /\ lock = "free"
    /\ starts < MaxStarts
    /\ starts' = starts + 1
    /\ IF is_running
       THEN reconfigure(cfg, cb)
       ELSE /\ \E i \in Slots :
                 /\ ~Alive(i)
                 /\ \A j \in Slots : ~Alive(j) => i <= j
                 /\ thread' = i
                 /\ loops' = [loops EXCEPT ![i] = [Dead EXCEPT !.pc = "init"]]
            /\ config' = cfg
            /\ callback' = cb
            /\ stop_event' = FALSE
            /\ last_fingerprint' = Nothing
            /\ is_running' = TRUE
    /\ UNCHANGED <<lock, vlm_enabled, screen, faults, screenChanges, others>>

\* WatchManager.stop up to the join: returns at once when the monitor does not
\* run, else sets the stop event and begins to wait for the thread, the lock held.
stop ==
    /\ lock = "free"
    /\ IF ~is_running
       THEN UNCHANGED vars
       ELSE /\ stop_event' = TRUE
            /\ lock' = "stop"
            /\ loops' = [i \in Slots |->
                           IF i = thread
                           THEN [loops[i] EXCEPT !.stopped = TRUE, !.ticked = FALSE]
                           ELSE loops[i]]
            /\ UNCHANGED <<thread, config, last_fingerprint, is_running, callback, env,
                           faults, others>>

\* A join() without a timeout returns only when the thread has ended.
JoinReturns_NoTimeout == thread = NoThread \/ ~Alive(thread)

\* self._thread.join(timeout=2.0) can return: the thread has ended, or the
\* timeout has passed.  The time a step of the loop takes is not bounded (a
\* capture or an inference call blocks as long as it likes), so the timeout can
\* pass in any state.
JoinReturns == TRUE

\* The rest of WatchManager.stop, after the join.
stop_return ==
    /\ lock = "stop"
    /\ JoinReturns
    /\ thread' = NoThread
    /\ is_running' = FALSE
    /\ last_fingerprint' = Nothing
    /\ lock' = "free"
    /\ UNCHANGED <<stop_event, config, callback, loops, env, faults, others>>

\* The capture provider's frame source changes.
screen_change ==
    /\ screenChanges < MaxScreenChanges
    /\ \E f \in Frames \ {screen} : screen' = f
    /\ screenChanges' = screenChanges + 1
    /\ UNCHANGED <<mgr, lock, loops, vlm_enabled, starts, faults, others>>

\* ------------------------------------------------------------------ the loop
\* Thread i moves to the locals l and touches no field of the manager.
Local(i, l) ==
    /\ loops' = [loops EXCEPT ![i] = l]
    /\ UNCHANGED <<mgr, lock, env, faults, others>>

\* The same, after a call of thread i has raised.
Raised(i, l) ==
    /\ faults < MaxFaults
    /\ faults' = faults + 1
    /\ loops' = [loops EXCEPT ![i] = l]
    /\ UNCHANGED <<mgr, lock, env, others>>

\* A call of the sink, as recorded in the history of the tick: the event, the
\* sink, and whether the sink raised.
Event(kind, sink, payload, raised) ==
    [kind |-> kind, sink |-> sink, payload |-> payload, raised |-> raised]

\* The first two statements of _watch_loop: the engines the thread will use.
\*   ocr_engine = OCREngine.get_instance() if self._config.run_ocr else None
\*   vlm_engine = VLMEngine.get_instance() if self._config.run_vlm else None
loop_init(i) ==
    /\ loops[i].pc = "init"
    /\ Local(i, [loops[i] EXCEPT !.pc = "check", !.ocr_engine = config.run_ocr,
                                 !.vlm_engine = config.run_vlm])

\* while not self._stop_event.is_set(): the thread returns, or begins a tick.
loop_check(i) ==
    /\ loops[i].pc = "check"
    /\ IF stop_event
       THEN Local(i, Dead)
       ELSE Local(i, [loops[i] EXCEPT !.pc = "capture", !.began = starts,
                                      !.tickAfterStop = @ \/ loops[i].stopped])

\* A capture whose failure also drops the fingerprint baseline.
loop_capture_DropsBaseline(i) ==
    /\ loops[i].pc = "capture"
    /\ \/ Local(i, [loops[i] EXCEPT !.pc = "diff", !.img = Some(screen)])
       \/ /\ faults < MaxFaults
          /\ faults' = faults + 1
          /\ loops' = [loops EXCEPT ![i] =
                          [@ EXCEPT !.pc = "error", !.exc = "capture failed"]]
          /\ last_fingerprint' = Nothing
          /\ UNCHANGED <<thread, stop_event, config, is_running, callback, lock,
                         env, others>>

\* img = ScreenshotService.capture(self._config.region): the provider returns
\* the frame of the screen, or raises.
loop_capture(i) ==
    /\ loops[i].pc = "capture"
    /\ \/ Local(i, [loops[i] EXCEPT !.pc = "diff", !.img = Some(screen)])
       \/ Raised(i, [loops[i] EXCEPT !.pc = "error", !.exc = "capture failed"])

\* fingerprint = ScreenshotService.generate_fingerprint(img)
\* delta = ScreenshotService.calculate_diff(self._last_fingerprint, fingerprint)
\* payload = {..., "delta": round(delta, 5), ..., "region": self._config.region}
loop_diff(i) ==
    /\ loops[i].pc = "diff"
    /\ LET fingerprint == generate_fingerprint(Val(loops[i].img))
           delta == calculate_diff(last_fingerprint, Some(fingerprint))
       IN  Local(i, [loops[i] EXCEPT
                !.pc = "ocr",
                !.hadBase = ~IsNone(last_fingerprint),
                !.delta = delta,
                !.payload = Some([delta |-> Round5(delta),
                                  region |-> config.region, keys |-> {}])])

AddKey(payload, key) == Some([Val(payload) EXCEPT !.keys = @ \cup {key}])

\* An OCR failure that is left to the except clause of the tick.
OcrFailed_Abort(l) == [l EXCEPT !.pc = "error", !.exc = "ocr failed"]

\* except Exception as e:
\*     logger.warning("OCR failed"); payload["ocr_error"] = str(e)
OcrFailed(l) == [l EXCEPT !.pc = "vlm", !.payload = AddKey(@, "ocr_error"),
                          !.logged = @ \cup {"OCR failed"}]

\* if self._config.run_ocr and ocr_engine: extract_text returns or raises.
loop_ocr(i) ==
    /\ loops[i].pc = "ocr"
    /\ LET l == loops[i] IN
       IF config.run_ocr /\ l.ocr_engine
       THEN \/ Local(i, [l EXCEPT !.pc = "vlm", !.payload = AddKey(@, "ocr")])
            \/ Raised(i, OcrFailed(l))
       ELSE Local(i, [l EXCEPT !.pc = "vlm"])

\* if self._last_fingerprint is None or delta >= self._config.change_threshold:
ChangeCondition(delta) ==
    IsNone(last_fingerprint) \/ DeltaGE(delta, config.change_threshold)

\* if self._config.run_vlm and vlm_engine and vlm_engine.is_enabled():
\*     if <change condition>: vlm_engine.describe(img, self._config.task)
\* The description call returns or raises.
loop_vlm(i) ==
    /\ loops[i].pc = "vlm"
    /\ IF config.run_vlm /\ loops[i].vlm_engine /\ vlm_enabled
       THEN LET l == [loops[i] EXCEPT !.thrVlm = Some(config.change_threshold)] IN
            IF ChangeCondition(l.delta)
            THEN \/ Local(i, [l EXCEPT !.pc = "tick", !.vlmInvoked = TRUE,
                                       !.payload = AddKey(@, "description")])
                 \/ Raised(i, [l EXCEPT !.pc = "tick", !.vlmInvoked = TRUE,
                                        !.payload = AddKey(@, "vlm_error"),
                                        !.logged = @ \cup {"VLM failed"}])
            ELSE Local(i, [l EXCEPT !.pc = "tick"])
       ELSE Local(i, [loops[i] EXCEPT !.pc = "tick"])

\* if self._callback: try: self._callback(kind, payload)
\*                    except Exception: logger.error("Callback error (kind)")
\* from the locals l of thread i: the sink returns or raises.
Emit(i, l, kind, next) ==
    IF callback # None
    THEN \/ Local(i, [l EXCEPT
                !.pc = next,
                !.sent = @ \cup {Event(kind, callback, l.payload, FALSE)}])
         \/ Raised(i, [l EXCEPT
                !.pc = next,
                !.sent = @ \cup {Event(kind, callback, l.payload, TRUE)},
                !.logged = @ \cup {"Callback error (" \o kind \o ")"}])
    ELSE Local(i, [l EXCEPT !.pc = next])

\* The tick event.
loop_tick(i) ==
    /\ loops[i].pc = "tick"
    /\ Emit(i, loops[i], "tick", "change")

\* The change event, if the change condition holds.
loop_change(i) ==
    /\ loops[i].pc = "change"
    /\ LET l == [loops[i] EXCEPT !.thrChg = Some(config.change_threshold)] IN
       IF ChangeCondition(l.delta)
       THEN Emit(i, l, "change", "update")
       ELSE Local(i, [l EXCEPT !.pc = "update"])

\* self._last_fingerprint = fingerprint: the tick has succeeded.
loop_update(i) ==
    /\ loops[i].pc = "update"
    /\ last_fingerprint' = Some(generate_fingerprint(Val(loops[i].img)))
    /\ loops' = [loops EXCEPT ![i] = [Between(@, "sleep") EXCEPT !.ticked = TRUE]]
    /\ UNCHANGED <<thread, stop_event, config, is_running, callback, lock, env,
                   faults, others>>

\* except Exception as e:
\*     logger.error("Watch loop error")
\*     if self._callback: try: self._callback("error", {"message": str(e)})
\*                        except: pass
\* An except clause that gives up: the thread returns from _watch_loop.
AfterError_Return(l) == [l EXCEPT !.pc = "done"]

\* The except clause ends: the thread goes on to the timed wait.
AfterError(l) == [l EXCEPT !.pc = "sleep"]

loop_error(i) ==
    /\ loops[i].pc = "error"
    /\ LET l == [loops[i] EXCEPT !.logged = @ \cup {"Watch loop error"}]
           message == Some([message |-> l.exc])
       IN  IF callback # None
           THEN \/ Local(i, AfterError([l EXCEPT
                      !.sent = @ \cup {Event("error", callback, message, FALSE)}]))
                \/ Raised(i, AfterError([l EXCEPT
                      !.sent = @ \cup {Event("error", callback, message, TRUE)}]))
           ELSE Local(i, AfterError(l))

\* A wait that the stop event does not end (time.sleep).
loop_sleep_Uninterruptible(i) ==
    /\ loops[i].pc = "sleep"
    /\ ~stop_event
    /\ Local(i, Between(loops[i], "check"))

\* self._stop_event.wait(timeout=sleep_ms / 1000.0) returns, because the event
\* is set or the time has passed: the tick is over.
loop_sleep(i) ==
    /\ loops[i].pc = "sleep"
    /\ Local(i, Between(loops[i], "check"))

\* WatchManager._watch_loop, one step of thread i.
watch_loop(i) ==
    \/ loop_init(i)
    \/ loop_check(i)
    \/ loop_capture(i)
    \/ loop_diff(i)
    \/ loop_ocr(i)
    \/ loop_vlm(i)
    \/ loop_tick(i)
    \/ loop_change(i)
    \/ loop_update(i)
    \/ loop_error(i)
    \/ loop_sleep(i)

Next ==
    \/ \E cfg \in Configs, cb \in Callbacks : start(cfg, cb)
    \/ stop
    \/ stop_return
    \/ screen_change
    \/ \E i \in Slots : watch_loop(i)

Spec == Init /\ [][Next]_vars

\* ------------------------------------------------- the sink calls stop()
\* The sink runs on the loop thread.  A sink that calls stop() of the manager
\* while the monitor runs takes the reentrant lock, sets the stop event and
\* joins self._thread, which is the thread it runs on: Thread.join raises
\* RuntimeError("cannot join current thread"), and stop() is left at line 105,
\* before lines 107-109.  The exception leaves the sink and is logged by the
\* except clause around the sink call.  kind is the event, at the statement
\* block pc, and next the block that follows.
sink_stop(i, kind, pc, next) ==
    /\ loops[i].pc = pc
    /\ thread = i
    /\ callback # None
    /\ kind = "change" => ChangeCondition(loops[i].delta)
    /\ lock = "free"
    /\ is_running
    /\ faults < MaxFaults
    /\ faults' = faults + 1
    /\ stop_event' = TRUE
    /\ loops' = [loops EXCEPT ![i] =
                    [@ EXCEPT !.pc = next,
                              !.sent = @ \cup {Event(kind, callback,
                                                     loops[i].payload, TRUE)},
                              !.logged = @ \cup {"Callback error (" \o kind \o ")"}]]
    /\ UNCHANGED <<thread, config, last_fingerprint, is_running, callback, lock,
                   env, others>>

\* The monitor with a sink that may call stop(), and no stop() from a request
\* context.
NextSink ==
    \/ \E cfg \in Configs, cb \in Callbacks : start(cfg, cb)
    \/ screen_change
    \/ \E i \in Slots : watch_loop(i)
    \/ \E i \in Slots : sink_stop(i, "tick", "tick", "change")
    \/ \E i \in Slots : sink_stop(i, "change", "change", "update")

SpecSink == Init /\ [][NextSink]_vars

\* ----------------------------------------------------- VisionCache, calls
\* VisionCache has no lock: a caller takes one step per statement of get, set
\* and _cleanup_oldest that reads or writes self._cache, and callers on other
\* threads run between two steps.

\* Caller c goes on with the locals l; the cache stays as it is.
Goes(c, l) ==
    /\ calls' = [calls EXCEPT ![c] = l]
    /\ UNCHANGED <<cache, max_size, now, ncalls, watch, enginev, restv>>

\* Caller c writes the cache and goes on with the locals l.
Writes(c, l, newCache) ==
    /\ calls' = [calls EXCEPT ![c] = l]
    /\ cache' = newCache
    /\ UNCHANGED <<max_size, now, ncalls, watch, enginev, restv>>

Returns(l, value) == [l EXCEPT !.pc = "idle", !.ret = value]

Raises(l, e) == [l EXCEPT !.pc = "idle", !.exc = e]

\* No call of the cache is in progress.
AllIdle == \A c \in Callers : calls[c].pc = "idle"

\* Caller c calls get(key) or set(key, result).
begin(c, op, key, result) ==
    /\ calls[c].pc = "idle"
    /\ ncalls < MaxCalls
    /\ ncalls' = ncalls + 1
    /\ calls' = [calls EXCEPT ![c] =
                    [Idle EXCEPT !.pc = op, !.op = op, !.key = key,
                                 !.result = result]]
    /\ UNCHANGED <<cache, max_size, now, watch, enginev, restv>>

\* if key not in self._cache: return None
get_in(c) ==
    /\ calls[c].pc = "get"
    /\ IF Has(cache, calls[c].key)
       THEN Goes(c, [calls[c] EXCEPT !.pc = "get_entry"])
       ELSE Goes(c, Returns(calls[c], Nothing))

\* entry = self._cache[key]
get_entry(c) ==
    /\ calls[c].pc = "get_entry"
    /\ IF Has(cache, calls[c].key)
       THEN Goes(c, [calls[c] EXCEPT !.pc = "get_expiry",
                                     !.entry = Some(Lookup(cache, calls[c].key))])
       ELSE Goes(c, Raises(calls[c], "KeyError"))

\* if time.time() - entry['timestamp'] > self.ttl: ... else: return entry['result']
get_expiry(c) ==
    /\ calls[c].pc = "get_expiry"
    /\ IF Expired(Val(calls[c].entry), now)
       THEN Goes(c, [calls[c] EXCEPT !.pc = "get_del"])
       ELSE Goes(c, Returns(calls[c], Some(Val(calls[c].entry).result)))

\* del self._cache[key]; return None
get_del(c) ==
    /\ calls[c].pc = "get_del"
    /\ IF Has(cache, calls[c].key)
       THEN Writes(c, Returns(calls[c], Nothing), Del(cache, calls[c].key))
       ELSE Goes(c, Raises(calls[c], "KeyError"))

\* if len(self._cache) >= self.max_size: self._cleanup_oldest()
set_in(c) ==
    /\ calls[c].pc = "set"
    /\ IF Len(cache) >= max_size
       THEN Goes(c, [calls[c] EXCEPT !.pc = "set_cleanup"])
       ELSE Goes(c, [calls[c] EXCEPT !.pc = "set_put"])

\* _cleanup_oldest: if not self._cache: return; else the entries are sorted
\* and the keys to delete are chosen.
set_cleanup(c) ==
    /\ calls[c].pc = "set_cleanup"
    /\ IF cache = <<>>
       THEN Goes(c, [calls[c] EXCEPT !.pc = "set_put"])
       ELSE Goes(c, [calls[c] EXCEPT !.pc = "set_evict", !.victims = Victims(cache)])

\* for key, _ in sorted_entries[:num_to_remove]: del self._cache[key]
\* One pass of the loop, or its end.
set_evict(c) ==
    /\ calls[c].pc = "set_evict"
    /\ LET l == calls[c] IN
       IF l.victims = <<>>
       THEN Goes(c, [l EXCEPT !.pc = "set_put"])
       ELSE IF Has(cache, Head(l.victims))
            THEN Writes(c, [l EXCEPT !.victims = Tail(@)], Del(cache, Head(l.victims)))
            ELSE Goes(c, Raises(l, "KeyError"))

\* self._cache[key] = {'result': result, 'timestamp': time.time()}
set_put(c) ==
    /\ calls[c].pc = "set_put"
    /\ Writes(c, Returns(calls[c], Nothing),
              Put(cache, calls[c].key, calls[c].result, now))

\* VisionCache.clear: self._cache.clear()
clear(c) ==
    /\ calls[c].pc = "idle"
    /\ ncalls < MaxCalls
    /\ ncalls' = ncalls + 1
    /\ cache' = <<>>
    /\ calls' = [calls EXCEPT ![c] = [Idle EXCEPT !.op = "clear"]]
    /\ UNCHANGED <<max_size, now, watch, enginev, restv>>

\* A second passes on the wall clock.
clock_tick ==
    /\ now < MaxTime
    /\ now' = now + 1
    /\ UNCHANGED <<cache, max_size, calls, ncalls, watch, enginev, restv>>

\* One step of a call of caller c that is in progress.
cache_step(c) ==
    \/ get_in(c)
    \/ get_entry(c)
    \/ get_expiry(c)
    \/ get_del(c)
    \/ set_in(c)
    \/ set_cleanup(c)
    \/ set_evict(c)
    \/ set_put(c)

\* A caller begins a call.
cache_call(c) ==
    \/ \E key \in Keys : begin(c, "get", key, None)
    \/ \E key \in Keys, result \in CacheResults : begin(c, "set", key, result)
    \/ clear(c)

\* A cache of any max_size from 1 to MaxCap, beside a monitor that is not used.
InitCache ==
    /\ WatchInit
    /\ vlm_enabled
    /\ CacheInit
    /\ max_size \in 1..MaxCap
    /\ EngineInit
    /\ RestInit
    /\ environ = [QWEN_ENABLED |-> FALSE, GOOGLE_VISION_API_KEY |-> Nothing]

\* The calls of the cache are made one at a time.
NextCache ==
    \/ \E c \in Callers : AllIdle /\ cache_call(c)
    \/ \E c \in Callers : cache_step(c)
    \/ clock_tick

SpecCache == InitCache /\ [][NextCache]_vars

\* The callers of the cache run on threads of their own.
NextCacheThreads ==
    \/ \E c \in Callers : cache_call(c)
    \/ \E c \in Callers : cache_step(c)
    \/ clock_tick

SpecCacheThreads == InitCache /\ [][NextCacheThreads]_vars

\* ---------------------------------------------------- VisionEngine, calls
\* process() is a coroutine that awaits nothing but its own helpers, which
\* call the backends synchronously: the event loop runs one call to its end
\* before the next, so a call is one step.
Request(img, mode, task, options) ==
    [img |-> img, mode |-> mode, task |-> task, options |-> options]

\* The fields of a VisionEngine.
Engine(c, client, model) ==
    [cache |-> c, google_client |-> client, qwen_model |-> model]

\* VisionEngine.__init__
NewEngine == Engine(<<>>, Nothing, FALSE)

\* A process() that also stores, under the key of a call that raised, the
\* dict of a backend that did not run.
process_call_CachesErrors(e, img, mode, task, options, out) ==
    LET cache_key == CacheKey(mode, task, engine_fingerprint(img))
        req == Request(img, mode, task, options)
        r0 == Run(e.google_client, e.qwen_model)
        r == CASE mode = "online" -> process_online(r0, img, task, options, out)
               [] mode = "privacy" -> process_privacy(r0, img, task, options, out)
               [] OTHER -> Failed(r0, InvalidModeMessage)
    IN  IF cache_key \in DOMAIN e.cache
        THEN [engine |-> e,
              resp |-> [req |-> req, status |-> "ok",
                        value |-> Some(CachedCopy(e.cache[cache_key])),
                        did |-> <<>>, logged |-> <<>>]]
        ELSE IF r.status = "ok"
        THEN LET result == Annotated(Val(r.value), mode) IN
             [engine |-> Engine((cache_key :> result) @@ e.cache,
                                r.google_client, r.qwen_model),
              resp |-> [req |-> req, status |-> "ok", value |-> Some(result),
                        did |-> r.did, logged |-> r.logged]]
        ELSE [engine |-> Engine((cache_key :>
                                    Annotated(BackendResult("none", img, task,
                                                            options), mode))
                                   @@ e.cache,
                                r.google_client, r.qwen_model),
              resp |-> [req |-> req, status |-> "error", value |-> r.value,
                        did |-> r.did, logged |-> r.logged]]

\* A process() whose cache key also tells the options of the call apart.
process_call_KeyedByOptions(e, img, mode, task, options, out) ==
    LET cache_key == <<CacheKey(mode, task, engine_fingerprint(img)), options>>
        req == Request(img, mode, task, options)
        r0 == Run(e.google_client, e.qwen_model)
        r == CASE mode = "online" -> process_online(r0, img, task, options, out)
               [] mode = "privacy" -> process_privacy(r0, img, task, options, out)
               [] OTHER -> Failed(r0, InvalidModeMessage)
    IN  IF cache_key \in DOMAIN e.cache
        THEN [engine |-> e,
              resp |-> [req |-> req, status |-> "ok",
                        value |-> Some(CachedCopy(e.cache[cache_key])),
                        did |-> <<>>, logged |-> <<>>]]
        ELSE IF r.status = "ok"
        THEN LET result == Annotated(Val(r.value), mode) IN
             [engine |-> Engine((cache_key :> result) @@ e.cache,
                                r.google_client, r.qwen_model),
              resp |-> [req |-> req, status |-> "ok", value |-> Some(result),
                        did |-> r.did, logged |-> r.logged]]
        ELSE [engine |-> Engine(e.cache, r.google_client, r.qwen_model),
              resp |-> [req |-> req, status |-> "error", value |-> r.value,
                        did |-> r.did, logged |-> r.logged]]

\* VisionEngine.process on the engine e, from the cache lookup to its return
\* or raise: the engine after the call, and the response.
process_call(e, img, mode, task, options, out) ==
    LET cache_key == CacheKey(mode, task, engine_fingerprint(img))
        req == Request(img, mode, task, options)
        r0 == Run(e.google_client, e.qwen_model)
        r == CASE mode = "online" -> process_online(r0, img, task, options, out)
               [] mode = "privacy" -> process_privacy(r0, img, task, options, out)
               [] OTHER -> Failed(r0, InvalidModeMessage)
    IN  IF cache_key \in DOMAIN e.cache
        THEN [engine |-> e,
              resp |-> [req |-> req, status |-> "ok",
                        value |-> Some(CachedCopy(e.cache[cache_key])),
                        did |-> <<>>, logged |-> <<>>]]
        ELSE IF r.status = "ok"
        THEN LET result == Annotated(Val(r.value), mode) IN
             [engine |-> Engine((cache_key :> result) @@ e.cache,
                                r.google_client, r.qwen_model),
              resp |-> [req |-> req, status |-> "ok", value |-> Some(result),
                        did |-> r.did, logged |-> r.logged]]
        ELSE [engine |-> Engine(e.cache, r.google_client, r.qwen_model),
              resp |-> [req |-> req, status |-> "error", value |-> r.value,
                        did |-> r.did, logged |-> r.logged]]

\* A process() call of the engine of SpecEngine.
process(img, mode, task, options, out) ==
    LET p == process_call(Engine(router_cache, google_client, qwen_model),
                          img, mode, task, options, out)
    IN  /\ nprocess < MaxProcess
        /\ nprocess' = nprocess + 1
        /\ router_cache' = p.engine.cache
        /\ google_client' = p.engine.google_client
        /\ qwen_model' = p.engine.qwen_model
        /\ resp' = Some(p.resp)
        /\ UNCHANGED <<environ, watch, cachev, restv>>

\* An engine in any environment, beside a monitor and a VisionCache that are
\* not used.
InitEngine ==
    /\ WatchInit
    /\ vlm_enabled
    /\ CacheInit
    /\ max_size \in 1..MaxCap
    /\ EngineInit
    /\ RestInit
    /\ environ \in [QWEN_ENABLED : BOOLEAN,
                    GOOGLE_VISION_API_KEY : {Nothing, Some("envkey")}]

NextEngine ==
    \E img \in Frames, mode \in Modes, task \in Tasks, options \in Options,
       out \in Outcomes :
        process(img, mode, task, options, out)

SpecEngine == InitEngine /\ [][NextEngine]_vars

\* ------------------------------------------------------------- HTTP routes
\* The route handlers are coroutines that await nothing but process(): the
\* event loop runs one request to its end before the next, so a request is
\* one step.  ScreenshotService.capture returns the frame img.

\* Number of HTTP requests of a behaviour.
MaxRequests == 2

\* OCRRequest: mode and api_key (region and language do not reach process()).
OCRRequests == [mode : Modes, api_key : ApiKeys]

\* DescribeRequest: mode, api_key, task and store_to_memory.
DescribeRequests ==
    [mode : Modes, api_key : ApiKeys, task : Prompts, store_to_memory : BOOLEAN]

\* HTTPException(status_code=500, detail={... "error": {code, message}})
HttpError(route, request, img, code, message, did, logged) ==
    [route |-> route, request |-> request, img |-> img, status |-> "error",
     data |-> Nothing, error |-> Some([code |-> code, message |-> message]),
     did |-> did, logged |-> logged]

\* OCRResponse / DescribeResponse with status "success"
HttpSuccess(route, request, img, data, did, logged) ==
    [route |-> route, request |-> request, img |-> img, status |-> "success",
     data |-> Some(data), error |-> Nothing, did |-> did, logged |-> logged]

\* The handler of POST /ocr: a new VisionEngine for the request.
extract_text(request, img, out) ==
    LET vision_engine == NewEngine
        process_options == [api_key |-> request.api_key, prompt |-> Nothing]
        p == process_call(vision_engine, img, request.mode, "extract_text",
                          process_options, out)
        vision_result == Val(p.resp.value)
    IN  /\ nrequests < MaxRequests
        /\ nrequests' = nrequests + 1
        /\ http' = Some(
             IF p.resp.status = "ok"
             THEN HttpSuccess("/ocr", request, img,
                              [text |-> [backend |-> vision_result.backend,
                                         img |-> vision_result.img],
                               mode |-> vision_result.mode,
                               latency_ms |-> vision_result.latency_ms,
                               cached |-> vision_result.cached],
                              p.resp.did, p.resp.logged)
             ELSE HttpError("/ocr", request, img, "OCR_FAILED", vision_result,
                            p.resp.did, p.resp.logged))
        /\ UNCHANGED <<watch, cachev, enginev, lazyv, diffv, callv>>

\* The names that server.py defines at module level.
ServerNames ==
    {"env_path", "logger", "app", "allowed_origins", "health_check",
     "service_capabilities", "global_exception_handler"}

\* ImportError of `from server import vision_engine`
ImportErrorMessage == <<"cannot import name 'vision_engine' from 'server'">>

\* The handler of POST /describe, with the engine that get_vision_engine()
\* returns: the engine of the server module.  memory_up: the memory store
\* accepts the result; described: the description of the privacy backend is
\* not empty (that of the online backend never is).
describe_screen(request, img, out, memory_up, described) ==
    LET process_options == [api_key |-> request.api_key, prompt |-> request.task]
        p == process_call(Engine(router_cache, google_client, qwen_model),
                          img, request.mode, "describe", process_options, out)
        vision_result == Val(p.resp.value)
        result == [description |-> [backend |-> vision_result.backend,
                                    img |-> vision_result.img,
                                    prompt |-> vision_result.prompt],
                   mode |-> vision_result.mode,
                   latency_ms |-> vision_result.latency_ms,
                   cached |-> vision_result.cached,
                   stored_to_memory |-> FALSE,
                   memory_storage_error |-> Nothing]
        has_description == vision_result.backend = "google" \/ described
    IN  /\ nrequests < MaxRequests
        /\ nrequests' = nrequests + 1
        /\ IF "vision_engine" \notin ServerNames
           THEN /\ http' = Some(HttpError("/describe", request, img,
                                          "DESCRIBE_FAILED", ImportErrorMessage,
                                          <<>>, <<>>))
                /\ UNCHANGED <<watch, cachev, enginev, lazyv, diffv, callv>>
           ELSE /\ router_cache' = p.engine.cache
                /\ google_client' = p.engine.google_client
                /\ qwen_model' = p.engine.qwen_model
                /\ http' = Some(
                     IF p.resp.status # "ok"
                     THEN HttpError("/describe", request, img, "DESCRIBE_FAILED",
                                    vision_result, p.resp.did, p.resp.logged)
                     ELSE IF ~(request.store_to_memory /\ has_description)
                     THEN HttpSuccess("/describe", request, img, result,
                                      p.resp.did, p.resp.logged)
                     ELSE IF memory_up
                     THEN HttpSuccess("/describe", request, img,
                                      [result EXCEPT !.stored_to_memory = TRUE],
                                      Append(p.resp.did, "store_to_user_memory"),
                                      p.resp.logged)
                     ELSE HttpSuccess("/describe", request, img,
                                      [result EXCEPT !.memory_storage_error =
                                                       Some(<<"memory store failed">>)],
                                      Append(p.resp.did, "store_to_user_memory"),
                                      Append(p.resp.logged,
                                             "Failed to store to memory")))
                /\ UNCHANGED <<watch, cachev, environ, resp, nprocess, lazyv, diffv,
                               callv>>

\* The service in any environment, before its first request.
InitRoutes ==
    /\ WatchInit
    /\ vlm_enabled
    /\ CacheInit
    /\ max_size = 1
    /\ EngineInit
    /\ RestInit
    /\ environ \in [QWEN_ENABLED : BOOLEAN,
                    GOOGLE_VISION_API_KEY : {Nothing, Some("envkey")}]

NextRoutes ==
    \/ \E request \in OCRRequests, img \in Frames, out \in Outcomes :
          extract_text(request, img, out)
    \/ \E request \in DescribeRequests, img \in Frames, out \in Outcomes,
          memory_up \in BOOLEAN, described \in BOOLEAN :
          describe_screen(request, img, out, memory_up, described)

SpecRoutes == InitRoutes /\ [][NextRoutes]_vars

\* ------------------------------------------- VLMEngine / OCREngine, threads
\* The threads that use the engines are the loop threads of the monitor:
\* _watch_loop calls get_instance() when it starts and describe() or
\* extract_text(), which call _ensure_loaded(), in its ticks.  Neither class
\* holds a lock, so a thread takes one step per read or write of
\* cls._instance and of self._model.  VLMEngine is enabled.
UserGoes(u, l) ==
    /\ users' = [users EXCEPT ![u] = l]
    /\ UNCHANGED <<watch, cachev, enginev, routev, diffv, callv>>

\* A thread turns to the engine of class cls.
use_engine(u, cls) ==
    /\ users[u].pc = "idle"
    /\ UserGoes(u, [users[u] EXCEPT !.pc = "get_instance", !.cls = cls])
    /\ UNCHANGED <<instance, heap, loads>>

\* get_instance: if cls._instance is None
get_instance_test(u) ==
    /\ users[u].pc = "get_instance"
    /\ UserGoes(u, [users[u] EXCEPT !.pc = IF instance[users[u].cls] = 0
                                            THEN "construct" ELSE "return"])
    /\ UNCHANGED <<instance, heap, loads>>

\* get_instance: cls._instance = cls(), an object whose _model is None
get_instance_construct(u) ==
    /\ users[u].pc = "construct"
    /\ heap' = Append(heap, [cls |-> users[u].cls, model |-> Nothing])
    /\ instance' = [instance EXCEPT ![users[u].cls] = Len(heap) + 1]
    /\ UserGoes(u, [users[u] EXCEPT !.pc = "return"])
    /\ UNCHANGED loads

\* get_instance: return cls._instance
get_instance_return(u) ==
    /\ users[u].pc = "return"
    /\ UserGoes(u, [users[u] EXCEPT !.pc = "ensure_loaded",
                                    !.self = instance[users[u].cls]])
    /\ UNCHANGED <<instance, heap, loads>>

\* _ensure_loaded: if self._model is None (self._ocr is None)
ensure_loaded_test(u) ==
    /\ users[u].pc = "ensure_loaded"
    /\ UserGoes(u, [users[u] EXCEPT
                      !.pc = IF IsNone(heap[users[u].self].model)
                             THEN "load" ELSE "call"])
    /\ UNCHANGED <<instance, heap, loads>>

\* _ensure_loaded: self._model = ...from_pretrained(...) (self._ocr =
\* PaddleOCR(...)): the load is an initialization, and its handle is new.
ensure_loaded_load(u) ==
    /\ users[u].pc = "load"
    /\ loads' = [loads EXCEPT ![users[u].cls] = @ + 1]
    /\ heap' = [heap EXCEPT ![users[u].self].model =
                              Some(<<users[u].cls, loads[users[u].cls] + 1>>)]
    /\ UserGoes(u, [users[u] EXCEPT !.pc = "call"])
    /\ UNCHANGED instance

\* describe / extract_text: the call of self._model (self._ocr)
engine_call(u) ==
    /\ users[u].pc = "call"
    /\ UserGoes(u, [users[u] EXCEPT !.pc = "done",
                                    !.model = heap[users[u].self].model])
    /\ UNCHANGED <<instance, heap, loads>>

\* The engines before their first use, beside the other components.
InitLazy ==
    /\ WatchInit
    /\ vlm_enabled
    /\ CacheInit
    /\ max_size = 1
    /\ EngineInit
    /\ RestInit
    /\ environ = [QWEN_ENABLED |-> FALSE, GOOGLE_VISION_API_KEY |-> Nothing]

NextLazy ==
    \E u \in Users :
        \/ \E cls \in Classes : use_engine(u, cls)
        \/ get_instance_test(u)
        \/ get_instance_construct(u)
        \/ get_instance_return(u)
        \/ ensure_loaded_test(u)
        \/ ensure_loaded_load(u)
        \/ engine_call(u)

SpecLazy == InitLazy /\ [][NextLazy]_vars

\* ------------------------------------------------- calculate_diff, calls
\* Longest fingerprint of a call.
MaxFpLen == 2

\* Some of the byte values 0..255, the two ends among them.
ByteValues == {0, 128, 255}

\* A fingerprint is the bytes of a grayscale image that has pixels.
Fingerprints == UNION {[1..n -> ByteValues] : n \in 1..MaxFpLen}

FingerprintArgs == {Nothing} \cup {Some(f) : f \in Fingerprints}

\* ScreenshotService.calculate_diff(fp_a, fp_b), called once.
diff_call ==
    /\ IsNone(score)
    /\ score' = Some(calculate_diff(arg_a, arg_b))
    /\ UNCHANGED <<arg_a, arg_b, watch, cachev, enginev, routev, lazyv, callv>>

\* Any two arguments, beside the other components.
InitDiff ==
    /\ WatchInit
    /\ vlm_enabled
    /\ CacheInit
    /\ max_size = 1
    /\ EngineInit
    /\ RouteInit
    /\ LazyInit
    /\ CallInit
    /\ environ = [QWEN_ENABLED |-> FALSE, GOOGLE_VISION_API_KEY |-> Nothing]
    /\ arg_a \in FingerprintArgs
    /\ arg_b \in FingerprintArgs
    /\ score = Nothing

NextDiff == diff_call

SpecDiff == InitDiff /\ [][NextDiff]_vars

\* ------------------------------------------------ VisionCache, whole calls
\* The calls of the cache made one at a time, each to its end in one step, on
\* a cache that earlier calls have filled.

\* Largest max_size of a filled cache, and calls per behaviour.
BigCap == 10

MaxOps == 3

\* The key no filled cache holds.
NewKey == BigCap + 1

CallKeys == Keys \cup {NewKey}

\* for key, _ in sorted_entries[:num_to_remove]: del self._cache[key]
RECURSIVE DelAll(_, _)
DelAll(c, keys) ==
    IF keys = <<>> THEN c ELSE DelAll(Del(c, Head(keys)), Tail(keys))

\* VisionCache._cleanup_oldest
cleanup_oldest(c) == IF c = <<>> THEN c ELSE DelAll(c, Victims(c))

\* VisionCache.set at time t, on the cache c of capacity m: the cache it leaves.
set_value(c, m, key, result, t) ==
    Put(IF Len(c) >= m THEN cleanup_oldest(c) ELSE c, key, result, t)

\* VisionCache.get at time t: the cache it leaves and what it returns.
get_value(c, key, t) ==
    IF ~Has(c, key) THEN [cache |-> c, ret |-> Nothing]
    ELSE LET entry == Lookup(c, key) IN
         IF Expired(entry, t)
         THEN [cache |-> Del(c, key), ret |-> Nothing]
         ELSE [cache |-> c, ret |-> Some(entry.result)]

\* What hist keeps of a call: the arguments, the time, and what it returned.
Call(op, key, result, ret) ==
    [op |-> op, key |-> key, result |-> result, at |-> now, ret |-> ret]

\* A call of the cache that leaves the cache newCache.
Called(call, newCache) ==
    /\ hist' = Append(hist, call)
    /\ cache' = newCache
    /\ UNCHANGED <<max_size, now, calls, ncalls, watch, enginev, routev, lazyv,
                   diffv>>

\* VisionCache.get
get_call(key) ==
    /\ Len(hist) < MaxOps
    /\ LET got == get_value(cache, key, now)
       IN  Called(Call("get", key, None, got.ret), got.cache)

\* VisionCache.set
set_call(key, result) ==
    /\ Len(hist) < MaxOps
    /\ Called(Call("set", key, result, Nothing),
              set_value(cache, max_size, key, result, now))

\* VisionCache.clear
clear_call ==
    /\ Len(hist) < MaxOps
    /\ Called(Call("clear", 0, None, Nothing), <<>>)

\* A get_stats that first drops the entries older than the TTL.
get_stats_call_Purging ==
    /\ Len(hist) < MaxOps
    /\ Called(Call("get_stats", 0, None, Some(get_stats)),
              SelectSeq(cache, LAMBDA e : ~Expired(e, now)))

\* VisionCache.get_stats
get_stats_call ==
    /\ Len(hist) < MaxOps
    /\ Called(Call("get_stats", 0, None, Some(get_stats)), cache)

\* The cache after set(key, "r1") for each key of keys in turn, at time t.
RECURSIVE SetAll(_, _, _, _)
SetAll(c, m, keys, t) ==
    IF keys = <<>> THEN c
    ELSE SetAll(set_value(c, m, Head(keys), "r1", t), m, Tail(keys), t)

\* The caches of capacity m that calls made before have filled: the keys
\* 1..m-1 were set at time 0, some of the keys the calls use were set again
\* at time 1, and the key m was set last, at time t; or no call was made.
Filled(m) ==
    {<<>>}
    \cup {SetAll(SetAll(<<>>, m, [k \in 1..(m - 1) |-> k], 0), m, <<m>>, t) :
             t \in {0, 1}}
    \cup {SetAll(SetAll(SetAll(<<>>, m, [k \in 1..(m - 1) |-> k], 0),
                        m, again, 1), m, <<m>>, 1) :
             again \in {<<k>> : k \in Keys \cap (1..(m - 1))}
                       \cup (IF m > 2 THEN {<<1, 2>>} ELSE {})}

\* A cache of capacity MaxCap or BigCap after the calls that filled it, at
\* time 1, beside a monitor that is not used.
InitCalls ==
    /\ WatchInit
    /\ vlm_enabled
    /\ calls = [c \in Callers |-> Idle]
    /\ ncalls = 0
    /\ now = 1
    /\ max_size \in {MaxCap, BigCap}
    /\ cache \in Filled(max_size)
    /\ EngineInit
    /\ RestInit
    /\ environ = [QWEN_ENABLED |-> FALSE, GOOGLE_VISION_API_KEY |-> Nothing]

NextCalls ==
    \/ \E key \in CallKeys : get_call(key)
    \/ \E key \in CallKeys, result \in CacheResults : set_call(key, result)
    \/ clear_call
    \/ get_stats_call
    \/ clock_tick

SpecCalls == InitCalls /\ [][NextCalls]_vars

\* ------------------------------------------------------------------ properties
\* Thread i is inside a tick.
InTick(i) ==
    loops[i].pc \in {"capture", "diff", "ocr", "vlm", "tick", "change", "update",
                     "error"}

\* Thread i still executes ticks: it lives, and it is not merely finishing the
\* tick that was in flight when stop() was called on it.
Active(i) == Alive(i) /\ (~loops[i].stopped \/ loops[i].tickAfterStop)

Changes(i) == {e \in loops[i].sent : e.kind = "change"}

\* C1: at most one loop thread is active at any time, also after a start() that
\* follows a stop() whose join timed out.
C1_AtMostOneActiveLoop == Cardinality({i \in Slots : Active(i)}) <= 1

\* C2: a loop thread on which stop() has been called never begins another tick.
C2_NoTickAfterStop == \A i \in Slots : ~loops[i].tickAfterStop

\* C3: a stop() that waits for the loop can return in every state, whatever
\* the loop is doing; when it returns status().running is false; and running
\* becomes true again only by a start().
C3_StopReturnsNotRunning ==
    /\ [](lock = "stop" => ENABLED stop_return)
    /\ [][stop_return => ~get_status'.running]_vars
    /\ [][(~get_status.running /\ get_status'.running)
            => \E cfg \in Configs, cb \in Callbacks : start(cfg, cb)]_vars

\* C3 witness: stop() has returned while the tick that was in flight goes on.
C3_Witness ==
    /\ lock = "free"
    /\ ~get_status.running
    /\ \E i \in Slots : loops[i].stopped /\ InTick(i) /\ ~loops[i].tickAfterStop

\* C4: a start() while the monitor runs stores the new configuration and sink
\* and changes nothing else: no thread is started, no loop thread moves, the
\* stop event and the fingerprint baseline stay as they are.
C4_ReconfigureInPlace ==
    [][\A cfg \in Configs, cb \in Callbacks :
          (is_running /\ start(cfg, cb))
              => /\ config' = cfg
                 /\ callback' = cb
                 /\ UNCHANGED <<thread, stop_event, last_fingerprint, is_running,
                                loops, lock>>]_vars

\* C4 witness: the running monitor has been reconfigured after a tick computed
\* its diff against a baseline, and the baseline is still there.
C4_Witness ==
    /\ is_running
    /\ lock = "free"
    /\ ~IsNone(last_fingerprint)
    /\ \E i \in Slots :
          /\ i = thread
          /\ loops[i].pc = "ocr"
          /\ loops[i].hadBase
          /\ Val(loops[i].payload).region # config.region

\* C5: all decisions of one tick use the same configuration; in particular the
\* threshold of the description decision is the threshold of the change-event
\* decision.
C5_OneConfigPerTick ==
    \A i \in Slots :
        (~IsNone(loops[i].thrVlm) /\ ~IsNone(loops[i].thrChg))
            => loops[i].thrVlm = loops[i].thrChg

\* C6: with a frame source that has not changed and a positive threshold (as
\* every threshold of Configs is), only the first successful tick of a run
\* emits a change event.  Stated for the only run of a behaviour with one
\* start() call: a tick of it that found a baseline, the one a former tick of
\* the run wrote, emits no change event.
C6_NoLaterChangeWhileStatic ==
    \A i \in Slots :
        (starts = 1 /\ screenChanges = 0 /\ loops[i].hadBase) => Changes(i) = {}

\* C7: a change event is delivered at a tick only if the tick found no baseline
\* or its DiffScore is at least the threshold.
C7_ChangeOnlyOnChange ==
    \A i \in Slots :
        Changes(i) # {}
            => (~loops[i].hadBase
                \/ DeltaGE(loops[i].delta, Val(loops[i].thrChg)))

\* C8: description is invoked at a tick only if the tick found no baseline or
\* its DiffScore is at least the threshold.
C8_DescribeOnlyOnChange ==
    \A i \in Slots :
        loops[i].vlmInvoked
            => (~loops[i].hadBase
                \/ DeltaGE(loops[i].delta, Val(loops[i].thrVlm)))

\* C9: a failed tick delivers an error event with the failure message (when a
\* sink is installed) and the thread goes on to the timed wait; a loop thread
\* returns only at the loop condition, with the stop event set.
C9_ErrorEventAndLoopContinues ==
    [][\A i \in Slots :
          /\ loop_error(i)
                => /\ loops'[i].pc = "sleep"
                   /\ callback # None
                        => \E e \in loops'[i].sent :
                              /\ e.kind = "error"
                              /\ e.sink = callback
                              /\ e.payload = Some([message |-> loops[i].exc])
          /\ (Alive(i) /\ loops'[i].pc = "done")
                => (loops[i].pc = "check" /\ stop_event)]_vars

\* C9 witness: a capture has failed, the error event is delivered, and the
\* thread waits for its next tick with the stop event clear.
C9_Witness ==
    \E i \in Slots :
        /\ loops[i].pc = "sleep"
        /\ loops[i].exc = "capture failed"
        /\ \E e \in loops[i].sent : e.kind = "error"
        /\ ~stop_event
        /\ ~loops[i].stopped

\* C10: a sink call that raises is logged for its event type.
C10_SinkFailureLogged ==
    \A i \in Slots :
        \A e \in loops[i].sent :
            e.raised => ("Callback error (" \o e.kind \o ")") \in loops[i].logged

\* The payload of thread i carries the marker of a failed text recognition.
HasOcrError(i) ==
    /\ ~IsNone(loops[i].payload)
    /\ "ocr_error" \in Val(loops[i].payload).keys

\* The statement block that follows each block of a tick after the OCR block.
TickSucc ==
    [pc \in {"vlm", "tick", "change", "update"} |->
        CASE pc = "vlm" -> "tick"
          [] pc = "tick" -> "change"
          [] pc = "change" -> "update"
          [] pc = "update" -> "sleep"]

\* C11: a text recognition that raises leaves the error marker in the payload
\* and the thread at the description decision.  A tick with the marker is
\* not aborted: no error event and no exception, the thread goes through the
\* description decision (evaluated exactly when description is on), delivers
\* the tick event with the payload, delivers the change event when the change
\* condition holds, and writes the baseline.
C11_OcrFailureKeepsTick ==
    /\ [](\A i \in Slots :
            HasOcrError(i)
                => /\ loops[i].pc \in DOMAIN TickSucc
                   /\ loops[i].exc = None
                   /\ \A e \in loops[i].sent : e.kind # "error")
    /\ [][\A i \in Slots :
            (loop_ocr(i) /\ faults' # faults)
                => (HasOcrError(i)' /\ loops'[i].pc = "vlm")]_vars
    /\ [][\A i \in Slots :
            HasOcrError(i)
                => /\ loops'[i].pc # loops[i].pc
                        => loops'[i].pc = TickSucc[loops[i].pc]
                   /\ loop_vlm(i)
                        => (~IsNone(loops'[i].thrVlm)
                              <=> (config.run_vlm /\ loops[i].vlm_engine
                                     /\ vlm_enabled))
                   /\ (loop_tick(i) /\ callback # None)
                        => \E e \in loops'[i].sent :
                              e.kind = "tick" /\ e.payload = loops[i].payload
                   /\ (loop_change(i) /\ callback # None
                         /\ ChangeCondition(loops[i].delta))
                        => \E e \in loops'[i].sent :
                              e.kind = "change" /\ e.payload = loops[i].payload
                   /\ loop_update(i)
                        => last_fingerprint'
                             = Some(generate_fingerprint(Val(loops[i].img)))]_vars

\* C11 witness: the tick event and the change event of a tick have been
\* delivered with the marker of the failed text recognition.
C11_Witness ==
    \E i \in Slots :
        /\ HasOcrError(i)
        /\ loops[i].pc = "update"
        /\ \E e \in loops[i].sent : e.kind = "tick" /\ e.payload = loops[i].payload
        /\ \E e \in loops[i].sent : e.kind = "change"

C13_StatusSnapshot ==
    [][/\ \A cfg \in Configs, cb \in Callbacks :
            start(cfg, cb)
                => get_status' =
                     [running |-> TRUE, interval_ms |-> cfg.interval_ms,
                      change_threshold |-> cfg.change_threshold,
                      run_ocr |-> cfg.run_ocr, run_vlm |-> cfg.run_vlm,
                      task |-> cfg.task, region |-> cfg.region]
       /\ (get_status' # get_status)
            => \/ \E cfg \in Configs, cb \in Callbacks : start(cfg, cb)
               \/ stop_return]_vars

\* C13 witness: the running monitor has been reconfigured, and the status is
\* the second configuration.
C13_Witness ==
    /\ starts = 2
    /\ lock = "free"
    /\ get_status.running
    /\ get_status.interval_ms = CfgFull.interval_ms
    /\ get_status.region = CfgFull.region
    /\ \E i \in Slots : loops[i].pc = "tick" /\ Val(loops[i].payload).region = Nothing

\* C14: with calls made one at a time, the cache never holds more than
\* max_size entries; a set that finds the cache at capacity goes to the
\* eviction, and the insertion of every set finds room for one entry.
C14_CacheBounded ==
    /\ [](Len(cache) <= max_size)
    /\ [][\A c \in Callers :
            /\ (set_in(c) /\ Len(cache) >= max_size)
                  => calls'[c].pc = "set_cleanup"
            /\ set_put(c)
                  => (Len(cache) < max_size /\ Has(cache', calls[c].key))]_vars

\* C14 witness: a set for a new key found the largest cache full, has evicted,
\* and is about to insert.
C14_Witness ==
    \E c \in Callers :
        /\ calls[c].pc = "set_evict"
        /\ calls[c].victims = <<>>
        /\ max_size = MaxCap
        /\ Len(cache) = max_size - 1
        /\ ~Has(cache, calls[c].key)

\* C15: with calls made one at a time, get(key) returns absent at once exactly
\* when the key is not in the cache; for a key that is present it returns the
\* stored result when the age of the entry is at most the TTL and leaves the
\* cache as it is; otherwise it deletes the entry, which makes the total of
\* stats() smaller by one, and returns absent.  No get raises.
C15_GetWithinTtl ==
    [][\A c \in Callers :
          LET key == calls[c].key
              returned == calls'[c].pc = "idle" /\ calls'[c].exc = None
          IN  /\ get_in(c)
                   => /\ (calls'[c].pc = "idle") <=> ~Has(cache, key)
                      /\ (calls'[c].pc = "idle")
                            => (returned /\ calls'[c].ret = Nothing)
              /\ get_expiry(c)
                   => /\ Has(cache, key)
                      /\ IF now - Lookup(cache, key).timestamp <= Ttl
                         THEN /\ returned
                              /\ calls'[c].ret = Some(Lookup(cache, key).result)
                              /\ cache' = cache
                         ELSE calls'[c].pc = "get_del"
              /\ get_del(c)
                   => /\ Has(cache, key)
                      /\ now - Lookup(cache, key).timestamp > Ttl
                      /\ returned
                      /\ calls'[c].ret = Nothing
                      /\ ~Has(cache', key)
                      /\ get_stats'.total_entries = get_stats.total_entries - 1
              /\ (calls[c].op = "get" /\ calls[c].pc = "get_entry")
                   => calls'[c].exc = None]_vars

\* C15 witness: a get has found an entry older than the TTL, has deleted it
\* and has returned absent.
C15_Witness ==
    \E c \in Callers :
        /\ calls[c].op = "get"
        /\ calls[c].pc = "idle"
        /\ ~IsNone(calls[c].entry)
        /\ now - Val(calls[c].entry).timestamp > Ttl
        /\ IsNone(calls[c].ret)
        /\ ~Has(cache, calls[c].key)

\* C16: with callers on threads of their own, the cache never holds more than
\* max_size entries.
C16_BoundedUnderThreads == Len(cache) <= max_size

\* C17: with callers on threads of their own, no get fails: every get ends in
\* a return, none in an exception.
C17_GetNeverFails ==
    \A c \in Callers : calls[c].op = "get" => calls[c].exc = None

\* C18: a process() call that follows a successful call of the same engine
\* with the same frame, mode and task returns the result of that call with
\* cached = true and latency 0; it runs no loader and no backend, and leaves
\* the handles and the cache as they are.
C18_SecondCallIsCacheHit ==
    [][(nprocess' = nprocess + 1 /\ ~IsNone(resp))
          => LET first == Val(resp)
                 second == Val(resp')
             IN  (/\ first.status = "ok"
                  /\ second.req.img = first.req.img
                  /\ second.req.mode = first.req.mode
                  /\ second.req.task = first.req.task)
                    => /\ second.status = "ok"
                       /\ second.value =
                            Some([Val(first.value) EXCEPT !.cached = TRUE,
                                                          !.latency_ms = 0])
                       /\ second.did = <<>>
                       /\ UNCHANGED <<router_cache, google_client, qwen_model>>]_vars

\* C18 witness: the second of two calls was answered from the cache, with
\* options that differ from those of the call that filled it.
C18_Witness ==
    /\ nprocess = 2
    /\ ~IsNone(resp)
    /\ Val(resp).status = "ok"
    /\ Val(resp).did = <<>>
    /\ Val(Val(resp).value).cached
    /\ Val(Val(resp).value).latency_ms = 0
    /\ Val(Val(resp).value).prompt # Val(resp).req.options.prompt

\* C19: the store that process() consults and fills never holds more results
\* than the configured maximum entry count of the Result Cache.  (The other
\* half of the claim, that no result older than the TTL is returned, is not
\* needed to refute it.)
C19_RouterStoreBounded == Cardinality(DOMAIN router_cache) <= max_size

\* C20: an online request whose online backend failed (its client could not
\* be loaded, or the call failed: the except clause of _process_online was
\* entered) while QWEN_ENABLED is true, and whose privacy backend loaded and
\* worked (the except clause of _process_privacy was not entered), has
\* returned a success with the privacy backend's result for the same frame
\* and task.
C20_FallbackToPrivacy ==
    (/\ ~IsNone(resp)
     /\ Val(resp).req.mode = "online"
     /\ environ.QWEN_ENABLED
     /\ \E k \in 1..Len(Val(resp).logged) :
            Val(resp).logged[k] = "Google Vision API error"
     /\ \A k \in 1..Len(Val(resp).logged) :
            Val(resp).logged[k] # "Local vision processing error")
        => /\ Val(resp).status = "ok"
           /\ Val(Val(resp).value).backend = "qwen"
           /\ Val(Val(resp).value).img = Val(resp).req.img
           /\ Val(Val(resp).value).task = Val(resp).req.task
           /\ Val(resp).did[Len(Val(resp).did)] = "call_qwen"

\* C20 witness: an online request whose online backend was called and failed
\* has been answered by the privacy backend.
C20_Witness ==
    /\ ~IsNone(resp)
    /\ Val(resp).req.mode = "online"
    /\ Val(resp).status = "ok"
    /\ Val(resp).did = <<"load_google", "call_google", "load_qwen", "call_qwen">>
    /\ Val(Val(resp).value).backend = "qwen"

\* The last process() call wrote this line to the log.
Logged(line) ==
    /\ ~IsNone(resp)
    /\ \E k \in 1..Len(Val(resp).logged) : Val(resp).logged[k] = line

\* The cache key of the last process() call.
RespKey ==
    CacheKey(Val(resp).req.mode, Val(resp).req.task,
             engine_fingerprint(Val(resp).req.img))

\* C21: an online request whose online backend failed (the except clause of
\* _process_online was entered) while QWEN_ENABLED is not true has ended in
\* an error, no result is stored for it, and the message of the error names
\* both remedies: connecting the cloud credential and enabling the local
\* fallback.
C21_NoFallbackErrorNamesRemedies ==
    (/\ Logged("Google Vision API error")
     /\ Val(resp).req.mode = "online"
     /\ ~environ.QWEN_ENABLED)
        => /\ Val(resp).status = "error"
           /\ Names(Val(Val(resp).value), CredentialHint)
           /\ Names(Val(Val(resp).value), FallbackHint)
           /\ RespKey \notin DOMAIN router_cache

\* C21 witness: an online request whose loaded client failed in the call, with
\* no fallback enabled, has been answered with the error that names both
\* remedies.
C21_Witness ==
    /\ Logged("Google Vision API error")
    /\ ~environ.QWEN_ENABLED
    /\ Val(resp).req.mode = "online"
    /\ Val(resp).status = "error"
    /\ Val(resp).did = <<"load_google", "call_google">>
    /\ Names(Val(Val(resp).value), CredentialHint)
    /\ Names(Val(Val(resp).value), FallbackHint)

\* The exceptions that the privacy backend raises.
PrivacyErrors == {NotEnabledMessage, <<"qwen load failed">>, <<"qwen call failed">>}

\* C22: a request whose privacy backend failed (the except clause of
\* _process_privacy was entered), as a privacy request or as the fallback of
\* a failed online request, has ended in the error of the privacy backend:
\* no result is stored, and the loader or the call of the privacy backend is
\* the last thing the call ran (nothing of the online backend runs after it).
C22_PrivacyFailureSurfaces ==
    Logged("Local vision processing error")
        => LET r == Val(resp) IN
           /\ r.status = "error"
           /\ Val(r.value) \in PrivacyErrors
           /\ r.did[Len(r.did)] \in {"load_qwen", "call_qwen"}
           /\ r.logged[Len(r.logged)] = "Local vision processing error"
           /\ RespKey \notin DOMAIN router_cache

\* C22 witness: an online request whose client call failed was passed to the
\* privacy backend, whose call failed too, and that failure is the answer.
C22_Witness ==
    /\ Logged("Local vision processing error")
    /\ Val(resp).req.mode = "online"
    /\ Val(resp).status = "error"
    /\ Val(resp).did = <<"load_google", "call_google", "load_qwen", "call_qwen">>
    /\ Val(resp).value = Some(<<"qwen call failed">>)

\* Response r is an error and the loader of the backend failed in its call.
LoadFailed(r, backend) ==
    /\ r.status = "error"
    /\ \E k \in 1..Len(r.logged) :
          r.logged[k] = IF backend = "google"
                        THEN "Failed to load Google Vision client"
                        ELSE "Failed to load Qwen model"

\* Response r is an error and the backend, loaded, failed when it was called.
CallFailed(r, backend) ==
    /\ r.status = "error"
    /\ \E k \in 1..Len(r.did) :
          r.did[k] = IF backend = "google" THEN "call_google" ELSE "call_qwen"
    /\ \E k \in 1..Len(r.logged) :
          r.logged[k] = IF backend = "google"
                        THEN "Google Vision API error"
                        ELSE "Local vision processing error"
    /\ ~LoadFailed(r, backend)

\* C23: of two consecutive process() calls that both end in an error, one
\* because the loader of a backend failed and the other because the same
\* backend, loaded, failed in its call, the two errors differ.
C23_LoadErrorDistinct ==
    [][(nprocess' = nprocess + 1 /\ ~IsNone(resp))
          => \A backend \in {"google", "qwen"} :
                (LoadFailed(Val(resp), backend) /\ CallFailed(Val(resp'), backend))
                   => Val(resp).value # Val(resp').value]_vars

\* The request with response h ran this step (a loader or a backend call).
Ran(h, step) == \E k \in 1..Len(h.did) : h.did[k] = step

\* The log line of a loader that fails.
LoadFailure(loader) ==
    IF loader = "load_google" THEN "Failed to load Google Vision client"
    ELSE "Failed to load Qwen model"

\* The request with response h ran the loader, and the loader succeeded.
Loaded(h, loader) ==
    /\ Ran(h, loader)
    /\ \A k \in 1..Len(h.logged) : h.logged[k] # LoadFailure(loader)

\* C24: a request runs the loader of a backend only if it is routed to that
\* backend (the online backend for an online request; the privacy backend
\* for a privacy request or for the fallback of an online request), and a
\* request that follows one in which the loader of a backend succeeded does
\* not run that loader again.
C24_LoadedOnce ==
    [][(nrequests' = nrequests + 1)
          => LET h == Val(http') IN
             /\ Ran(h, "load_google") => h.request.mode = "online"
             /\ Ran(h, "load_qwen")
                   => \/ h.request.mode = "privacy"
                      \/ /\ h.request.mode = "online"
                         /\ \E k \in 1..Len(h.logged) :
                               h.logged[k] = "Falling back to privacy mode"
             /\ \A loader \in {"load_google", "load_qwen"} :
                   (~IsNone(http) /\ Loaded(Val(http), loader))
                      => ~Ran(h, loader)]_vars

\* C26: a POST /ocr request that follows a successful POST /ocr request with
\* the same captured frame and the same mode is answered from the cache: it
\* succeeds with cached = true and runs no loader and no backend.
C26_SecondOcrFromCache ==
    [][(nrequests' = nrequests + 1 /\ ~IsNone(http))
          => LET first == Val(http)
                 second == Val(http')
             IN  (/\ first.route = "/ocr"
                  /\ second.route = "/ocr"
                  /\ first.status = "success"
                  /\ second.img = first.img
                  /\ second.request.mode = first.request.mode)
                    => /\ second.status = "success"
                       /\ Val(second.data).cached
                       /\ second.did = <<>>]_vars

\* C29: a POST /describe request that asks for storing, whose online backend
\* is configured and works, whose description is not empty, and whose memory
\* store fails, is answered with a success that carries the analysis and the
\* marker of the failed storage; and no request forwards a result unless it
\* asked for storing.
C29_StoreFailureNotFatal ==
    [][(nrequests' = nrequests + 1 /\ Val(http').route = "/describe")
          => LET h == Val(http') IN
             /\ Ran(h, "store_to_user_memory") => h.request.store_to_memory
             /\ \A out \in Outcomes :
                   (/\ h.request.store_to_memory
                    /\ h.request.mode = "online"
                    /\ ~IsNone(h.request.api_key)
                    /\ out.google_loads /\ out.google_works
                    /\ describe_screen(h.request, h.img, out, FALSE, TRUE))
                      => /\ h.status = "success"
                         /\ Val(h.data).description.img = h.img
                         /\ ~IsNone(Val(h.data).memory_storage_error)]_vars

\* C25: whatever the interleaving of the threads that use an engine class
\* for the first time, one object of the class is constructed and its model
\* is loaded once, and the threads that have called the engine have used the
\* same loaded model.
C25_OneInitialization ==
    \A cls \in Classes :
        /\ Cardinality({k \in 1..Len(heap) : heap[k].cls = cls}) <= 1
        /\ loads[cls] <= 1
        /\ \A u, v \in Users :
              (/\ users[u].pc = "done" /\ users[v].pc = "done"
               /\ users[u].cls = cls /\ users[v].cls = cls)
                 => users[u].model = users[v].model

\* C27: calculate_diff returns exactly 1 when either argument is None, both
\* included, and when the two fingerprints differ in length, whatever their
\* bytes.
C27_DiffOneWhenIncomparable ==
    (/\ ~IsNone(score)
     /\ \/ IsNone(arg_a)
        \/ IsNone(arg_b)
        \/ Len(Val(arg_a)) # Len(Val(arg_b)))
        => Val(score).num = Val(score).den /\ Val(score).den > 0

\* C27 witness: two fingerprints of different lengths, one of which begins
\* with the other, have been compared and the score is 1.
C27_Witness ==
    /\ ~IsNone(score)
    /\ arg_a = Some(<<0>>)
    /\ arg_b = Some(<<0, 0>>)
    /\ Val(score) = [num |-> 1, den |-> 1]

\* The sum of f over the set S of indices.
RECURSIVE SumOver(_, _)
SumOver(f, S) ==
    IF S = {} THEN 0
    ELSE LET k == CHOOSE k \in S : TRUE IN f[k] + SumOver(f, S \ {k})

\* C28: calculate_diff returns a score for every pair of arguments, and the
\* score is in [0, 1]; for two fingerprints of the same length n it is the
\* sum of the |a[k] - b[k]| divided by n * 255, which is 0 when the two are
\* the same.
C28_DiffIsNormalisedMean ==
    ~IsNone(score)
        => /\ Val(score).den > 0
           /\ 0 <= Val(score).num
           /\ Val(score).num <= Val(score).den
           /\ (~IsNone(arg_a) /\ ~IsNone(arg_b)
                 /\ Len(Val(arg_a)) = Len(Val(arg_b)))
                 => LET a == Val(arg_a)
                        b == Val(arg_b)
                        n == Len(a)
                        d == [k \in 1..n |-> IF a[k] >= b[k] THEN a[k] - b[k]
                                             ELSE b[k] - a[k]]
                    IN  /\ Val(score).num * (n * 255)
                             = SumOver(d, 1..n) * Val(score).den
                        /\ a = b => Val(score).num = 0

\* C28 witness: the score of two fingerprints of the same length that are as
\* far apart as two fingerprints can be is 1.
C28_Witness ==
    /\ ~IsNone(score)
    /\ arg_a = Some(<<0, 255>>)
    /\ arg_b = Some(<<255, 0>>)
    /\ Val(score).num = Val(score).den

\* C30: in a tick of the running loop that began after the last start() call
\* (so that the configuration of that call was in force from its first
\* statement) and has passed the text recognition block, the payload carries
\* the text or the marker of its failure if the configuration enables text
\* recognition; and if it has passed the description block too, on a change
\* tick, the description was invoked if the configuration enables it.  The
\* case of the claim is a loop started without the one or the other that a
\* second start() call reconfigures.
C30_ReconfigurationEnablesAnalysis ==
    \A i \in Slots :
        LET l == loops[i] IN
        (/\ thread = i
         /\ ~l.stopped
         /\ l.began = starts
         /\ l.pc \in {"vlm", "tick", "change", "update"})
            => /\ config.run_ocr
                    => Val(l.payload).keys \cap {"ocr", "ocr_error"} # {}
               /\ (/\ l.pc # "vlm"
                   /\ config.run_vlm /\ vlm_enabled
                   /\ ~l.hadBase \/ DeltaGE(l.delta, config.change_threshold))
                    => Val(l.payload).keys \cap {"description", "vlm_error"} # {}

\* Thread i is the thread of the current run, stop() has not been called on it,
\* and it is in the tick that will be its first to succeed, past the capture.
FirstTick(i) ==
    /\ thread = i
    /\ ~loops[i].stopped
    /\ ~loops[i].ticked
    /\ loops[i].pc \in {"ocr", "vlm", "tick", "change", "update"}

\* C31: the first successfully captured tick of every run finds no fingerprint
\* baseline, whoever wrote it, and delivers the change event to the sink
\* installed at its change decision.
C31_FirstTickFindsNoBaseline ==
    /\ [](\A i \in Slots : FirstTick(i) => ~loops[i].hadBase)
    /\ [][\A i \in Slots :
            (FirstTick(i) /\ loop_change(i) /\ callback # None)
                => \E e \in loops'[i].sent : e.kind = "change"]_vars

\* The keys of the cache c.
KeysOf(c) == {c[n].key : n \in 1..Len(c)}

\* C32: a set on a cache that holds n >= max_size entries removes exactly
\* max(1, n div 5) entries before it inserts, none of them younger than an
\* entry it keeps, the oldest entry among them; and a get changes the age and
\* the place of no entry: it leaves the cache as it is, but for the entry of
\* its key when that entry is older than the TTL.
C32_EvictsOldestFifth ==
    [][/\ \A key \in CallKeys, result \in CacheResults :
            (set_call(key, result) /\ Len(cache) >= max_size)
                => LET n == Len(cache)
                       k == IF n \div 5 > 1 THEN n \div 5 ELSE 1
                   IN  \E removed \in SUBSET KeysOf(cache) :
                          /\ Cardinality(removed) = k
                          /\ \A a \in 1..n, b \in 1..n :
                                (cache[a].key \in removed /\ cache[b].key \notin removed)
                                    => cache[a].timestamp <= cache[b].timestamp
                          /\ \E a \in 1..n :
                                /\ cache[a].key \in removed
                                /\ \A b \in 1..n :
                                      cache[a].timestamp <= cache[b].timestamp
                          /\ cache' = Put(SelectSeq(cache,
                                                    LAMBDA e : e.key \notin removed),
                                          key, result, now)
       /\ \A key \in CallKeys :
            get_call(key)
                => cache' = SelectSeq(cache,
                                      LAMBDA e : \/ e.key # key
                                                 \/ now - e.timestamp <= Ttl)]_vars

\* C32 witness: a set for a new key on a full cache of ten entries, whose
\* first two entries in dict order had been set again later than the others,
\* has removed two older entries and has kept those two.
C32_Witness ==
    /\ max_size = BigCap
    /\ Len(hist) = 1
    /\ hist[1].op = "set"
    /\ hist[1].key = NewKey
    /\ Len(cache) = BigCap - 1
    /\ cache[1].key = 1 /\ cache[1].timestamp = 1
    /\ cache[2].key = 2 /\ cache[2].timestamp = 1
    /\ ~Has(cache, 3)
    /\ ~Has(cache, 4)
    /\ Has(cache, NewKey)

\* C33: get_stats leaves the cache as it is, entries older than the TTL
\* included; it reports the number of entries as total and the number of
\* entries whose age is at most the TTL as active, so 0 <= active <= total;
\* and after clear the total is 0.
C33_StatsReadsOnly ==
    [][/\ get_stats_call
            => LET stats == Val(hist'[Len(hist')].ret) IN
               /\ cache' = cache
               /\ stats.total_entries = Len(cache)
               /\ stats.active_entries
                    = Cardinality({n \in 1..Len(cache) :
                                      now - cache[n].timestamp <= Ttl})
               /\ 0 <= stats.active_entries
               /\ stats.active_entries <= stats.total_entries
       /\ clear_call => get_stats'.total_entries = 0]_vars

\* C33 witness: get_stats has been called on a cache with entries older than
\* the TTL, has counted them in total and not in active, and they are there.
C33_Witness ==
    /\ hist # <<>>
    /\ hist[Len(hist)].op = "get_stats"
    /\ hist[Len(hist)].at = now
    /\ Val(hist[Len(hist)].ret).active_entries > 0
    /\ Val(hist[Len(hist)].ret).active_entries
         < Val(hist[Len(hist)].ret).total_entries
    /\ \E n \in 1..Len(cache) : now - cache[n].timestamp > Ttl

\* C34: a get(key) that is the next call after a set(key, r), no later than
\* the TTL after it, returns r, whether the key was new or present and whether
\* or not the set evicted; the set stores r with the time of the call under
\* its key, and a set below capacity changes no other entry and removes none.
C34_GetAfterSet ==
    /\ [](\A n \in 1..(Len(hist) - 1) :
            (/\ hist[n].op = "set"
             /\ hist[n + 1].op = "get"
             /\ hist[n + 1].key = hist[n].key
             /\ hist[n + 1].at - hist[n].at <= Ttl)
                => hist[n + 1].ret = Some(hist[n].result))
    /\ [][\A key \in CallKeys, result \in CacheResults :
            set_call(key, result)
                => /\ Has(cache', key)
                   /\ Lookup(cache', key).result = result
                   /\ Lookup(cache', key).timestamp = now
                   /\ Len(cache) < max_size
                        => /\ KeysOf(cache') = KeysOf(cache) \cup {key}
                           /\ \A n \in 1..Len(cache) :
                                 cache[n].key # key => cache'[n] = cache[n]]_vars

\* C34 witness: a key that was present in a full cache has been set to another
\* result, the set has evicted, and the get that followed has returned the
\* new result.
C34_Witness ==
    /\ max_size = BigCap
    /\ Len(hist) = 2
    /\ hist[1].op = "set"
    /\ hist[1].key = 1
    /\ hist[1].result = "r2"
    /\ hist[2].op = "get"
    /\ hist[2].key = 1
    /\ hist[2].ret = Some("r2")
    /\ Len(cache) < BigCap - 1

\* The cache key of the request of a response.
KeyOf(r) == CacheKey(r.req.mode, r.req.task, engine_fingerprint(r.req.img))

\* C35: a process() call that raises leaves the cache of the router as it
\* was, with no entry under the key of the call; the same call made next is
\* not answered from the cache and runs a loader or a backend again when its
\* mode is 'online' or 'privacy'; and a call with another mode raises and runs
\* neither a loader nor a backend.
C35_ErrorLeavesCacheAlone ==
    [][nprocess' # nprocess
         => LET new == Val(resp') IN
            /\ new.status = "error"
                 => /\ router_cache' = router_cache
                    /\ KeyOf(new) \notin DOMAIN router_cache'
            /\ (/\ ~IsNone(resp)
                /\ Val(resp).status = "error"
                /\ new.req = Val(resp).req)
                 => /\ new.status = "ok" => ~Val(new.value).cached
                    /\ new.req.mode \in {"online", "privacy"} => new.did # <<>>
            /\ new.req.mode \notin {"online", "privacy"}
                 => /\ new.status = "error"
                    /\ new.did = <<>>]_vars

\* C35 witness: a second online call has failed in the backend, on the client
\* a former call had loaded, and the cache is empty: the former call failed too.
C35_Witness ==
    /\ nprocess = 2
    /\ ~IsNone(resp)
    /\ Val(resp).status = "error"
    /\ Val(resp).did = <<"call_google">>
    /\ router_cache = <<>>

\* The call of the response r fell back from the online to the privacy backend.
FellBack(r) ==
    \E k \in 1..Len(r.logged) : r.logged[k] = "Falling back to privacy mode"

\* C36: an online call that the privacy backend serves through the fallback
\* returns the dict of the privacy backend with mode 'online' and stores it
\* under the online key; the same request made next is answered from the
\* cache with that dict, and runs no loader and no backend.
C36_FallbackCachedAsOnline ==
    /\ [](~IsNone(resp)
            => LET r == Val(resp) IN
               (r.status = "ok" /\ FellBack(r))
                   => /\ r.req.mode = "online"
                      /\ Val(r.value).backend = "qwen"
                      /\ Val(r.value).mode = "online"
                      /\ KeyOf(r) = <<"online", r.req.task,
                                      engine_fingerprint(r.req.img)>>
                      /\ KeyOf(r) \in DOMAIN router_cache
                      /\ router_cache[KeyOf(r)] = Val(r.value))
    /\ [][(/\ nprocess' # nprocess
           /\ ~IsNone(resp)
           /\ Val(resp).status = "ok"
           /\ FellBack(Val(resp))
           /\ Val(resp').req = Val(resp).req)
            => LET new == Val(resp') IN
               /\ new.status = "ok"
               /\ Val(new.value).cached
               /\ Val(new.value).backend = "qwen"
               /\ Val(new.value).mode = "online"
               /\ new.did = <<>>
               /\ new.logged = <<>>]_vars

\* C36 witness: the second of two online calls has been answered from the
\* cache with the dict of the privacy backend.
C36_Witness ==
    /\ nprocess = 2
    /\ ~IsNone(resp)
    /\ Val(resp).status = "ok"
    /\ Val(resp).req.mode = "online"
    /\ Val(Val(resp).value).cached
    /\ Val(Val(resp).value).backend = "qwen"
    /\ Val(resp).did = <<>>

\* C37: the cache key is made of the mode, the task and the fingerprint of the
\* frame, and of nothing else of the call; a call that follows a successful
\* call with the same frame, mode and task and other options (another prompt,
\* another api_key) returns the dict of that call, the prompt it was computed
\* for included, marked as cached, and runs no loader and no backend.
C37_OptionsNotInKey ==
    /\ [](\A img \in Frames, mode \in Modes, task \in Tasks :
            \A k \in 1..3 :
                CacheKey(mode, task, engine_fingerprint(img))[k]
                    = <<mode, task, engine_fingerprint(img)>>[k])
    /\ [][(/\ nprocess' # nprocess
           /\ ~IsNone(resp)
           /\ Val(resp).status = "ok"
           /\ Val(resp').req.img = Val(resp).req.img
           /\ Val(resp').req.mode = Val(resp).req.mode
           /\ Val(resp').req.task = Val(resp).req.task
           /\ Val(resp').req.options # Val(resp).req.options)
            => LET new == Val(resp')
                   old == Val(Val(resp).value)
               IN  /\ new.status = "ok"
                   /\ new.did = <<>>
                   /\ Val(new.value).cached
                   /\ Val(new.value).latency_ms = 0
                   /\ Val(new.value).backend = old.backend
                   /\ Val(new.value).prompt = old.prompt
                   /\ Val(new.value).mode = old.mode
                   /\ router_cache' = router_cache]_vars

\* C37 witness: a privacy describe call with a prompt has been answered from
\* the cache with the dict computed for a call without a prompt.
C37_Witness ==
    /\ nprocess = 2
    /\ ~IsNone(resp)
    /\ Val(resp).status = "ok"
    /\ Val(resp).req.mode = "privacy"
    /\ Val(resp).req.task = "describe"
    /\ ~IsNone(Val(resp).req.options.prompt)
    /\ Val(Val(resp).value).cached
    /\ IsNone(Val(Val(resp).value).prompt)
    /\ Val(Val(resp).value).backend = "qwen"

\* The call of the response r ran the loader of the cloud client.
RanLoader(r) == \E k \in 1..Len(r.did) : r.did[k] = "load_google"

\* C40: the client is created by the first online call whose load succeeds,
\* with the api_key of that call or, when it has none, the key of the
\* environment; once there is a client no call replaces it or loads again,
\* whatever api_key the call supplies; and a load that fails leaves no client,
\* so that the next online call that misses the cache runs the loader again.
C40_ClientKeepsFirstCredential ==
    [][nprocess' # nprocess
         => LET new == Val(resp')
                hit == KeyOf(new) \in DOMAIN router_cache
                key == IF IsNone(new.req.options.api_key)
                       THEN environ.GOOGLE_VISION_API_KEY
                       ELSE new.req.options.api_key
            IN  /\ ~IsNone(google_client)
                     => /\ google_client' = google_client
                        /\ ~RanLoader(new)
                /\ (IsNone(google_client) /\ new.req.mode = "online" /\ ~hit)
                     => /\ RanLoader(new)
                        /\ google_client' \in {Nothing, key}
                /\ (IsNone(google_client) /\ ~RanLoader(new))
                     => IsNone(google_client')]_vars

\* C40 witness: an online call with another api_key has run the backend on
\* the client that a former call had created with its own api_key.
C40_Witness ==
    /\ nprocess = 2
    /\ ~IsNone(resp)
    /\ Val(resp).req.mode = "online"
    /\ Val(resp).req.options.api_key = Some("key2")
    /\ google_client = Some("key1")
    /\ Val(resp).did = <<"call_google">>
    /\ Val(resp).status = "ok"

\* C38: in every state in which status() can be read (the lock is free), if
\* it reports running then the loop thread of the run is alive, and if it
\* reports not running then no loop thread is inside a tick.
C38_RunningIffLoopAlive ==
    lock = "free"
        => /\ get_status.running => (thread # NoThread /\ Alive(thread))
           /\ ~get_status.running => \A i \in Slots : ~InTick(i)

\* C39: a tick whose capture raises delivers no tick event and no change
\* event, and the steps of the failed tick (the raise and the except clause)
\* leave the fingerprint baseline as it is; so in a run that is alone, with
\* no stop() called on it, there is a baseline exactly when a tick of the run
\* has succeeded, whatever ticks have failed before or since.
C39_FailedTickKeepsBaseline ==
    /\ [](\A i \in Slots :
            loops[i].exc # None
                => \A e \in loops[i].sent : e.kind \notin {"tick", "change"})
    /\ [](\A i \in Slots :
            (starts = 1 /\ lock = "free" /\ thread = i /\ Alive(i)
               /\ ~loops[i].stopped)
                => (loops[i].ticked <=> ~IsNone(last_fingerprint)))
    /\ [][\A i \in Slots :
            (loops'[i] # loops[i] /\ loops'[i].exc # None)
                => last_fingerprint' = last_fingerprint]_vars

\* C39 witness: a tick of the only run has failed in the capture after a tick
\* that succeeded, the error event is delivered, and the baseline is there.
C39_Witness ==
    \E i \in Slots :
        /\ starts = 1
        /\ thread = i
        /\ ~loops[i].stopped
        /\ loops[i].pc = "sleep"
        /\ loops[i].exc = "capture failed"
        /\ loops[i].ticked
        /\ ~IsNone(last_fingerprint)
        /\ \E e \in loops[i].sent : e.kind = "error"
====
